---- MODULE Spec2Model ----
(***************************************************************************)
(* Invasive-species risk scoring backend (XGOOA).                          *)
(*                                                                         *)
(* Two code bases live in the repository and both are modelled:            *)
(*   "backend" : src/backend/backend.py        (three model variants)      *)
(*   "copy"    : src/XGOOA - Copy/backend/backend.py  (one model)          *)
(*                                                                         *)
(* Numbers.  Python floats are modelled in fixed point.                    *)
(*   - physical readings (pH, ppt, mg/L, NTU, degrees C) are integers in   *)
(*     thousandths of their unit, so the lake table is copied digit for    *)
(*     digit (9.12 is 9120);                                               *)
(*   - probabilities, similarities and scores are integers in 1/Scale,     *)
(*     so 0.33 is 3300 and 1.0 is Scale; a product is rounded down to      *)
(*     1/Scale, where the float product is rounded to the nearest double;  *)
(*   - coordinates are integers in millionths of a degree.                 *)
(***************************************************************************)
EXTENDS Integers, Sequences, FiniteSets, TLC

VARIABLES
  phase,          \* "import" | "serving" | "crashed": module import of backend.py
  importError,    \* the exception that ended the import, "" when there is none
  codebase,       \* "backend" | "copy": which backend.py the process imports
  models,         \* the module globals <v>_model / <v>_preprocessor: loaded or None
  super_dataset,  \* the module global super_dataset (rows of super_dataset.csv)
  last,           \* the last completed call: [op, args, ret]
  prev,           \* the result of the call before it when it had the same op and args
  server          \* src/flask_server.py: the global predictor and its request threads

vars == <<phase, importError, codebase, models, super_dataset, last, prev, server>>

----------------------------------------------------------------------------
(* Bounds of the model *)

\* Number of distinct user readings a call may carry (ReadingAt(1..NumReadings)).
NumReadings == 6

\* At most this many of the six model/preprocessor files fail to load.
MaxLoadFailures == 1

\* Number of requests src/flask_server.py serves, each on a thread of its own.
NumRequests == 3

----------------------------------------------------------------------------
(* Fixed point *)

Scale == 10 * 1000

Abs(x) == IF x < 0 THEN -x ELSE x

\* a * b for two numbers in 1/Scale
Mul(a, b) == (a * b) \div Scale

RECURSIVE SqrtSearch(_, _, _)
SqrtSearch(n, lo, hi) ==
  IF lo >= hi THEN lo
  ELSE LET mid == (lo + hi + 1) \div 2
       IN IF mid * mid <= n THEN SqrtSearch(n, mid, hi)
          ELSE SqrtSearch(n, lo, mid - 1)

\* floor of the square root
ISqrt(n) == SqrtSearch(n, 0, 40000)

RECURSIVE SumSeq(_)
SumSeq(s) == IF s = <<>> THEN 0 ELSE Head(s) + SumSeq(Tail(s))

RECURSIVE MaxSeq(_)
MaxSeq(s) ==
  IF Len(s) = 1 THEN s[1]
  ELSE LET m == MaxSeq(Tail(s)) IN IF s[1] >= m THEN s[1] ELSE m

----------------------------------------------------------------------------
(* Strings: Python str operations work on the characters of a string *)

NA == "nan"

Chars(s) ==
  CASE s = "Laguna de Bay" -> <<"L","a","g","u","n","a"," ","d","e"," ","B","a","y">>
    [] s = "Lake Taal" -> <<"L","a","k","e"," ","T","a","a","l">>
    [] s = "Lake Sampaloc" -> <<"L","a","k","e"," ","S","a","m","p","a","l","o","c">>
    [] s = "Lake Yambo" -> <<"L","a","k","e"," ","Y","a","m","b","o">>
    [] s = "Lake Pandin" -> <<"L","a","k","e"," ","P","a","n","d","i","n">>
    [] s = "Lake Mohicap" -> <<"L","a","k","e"," ","M","o","h","i","c","a","p">>
    [] s = "Lake Palakpakin" -> <<"L","a","k","e"," ","P","a","l","a","k","p","a","k","i","n">>
    [] s = "Lake Nabao" -> <<"L","a","k","e"," ","N","a","b","a","o">>
    [] s = "Lake Tadlac" -> <<"L","a","k","e"," ","T","a","d","l","a","c">>
    [] s = "Lake Tikub" -> <<"L","a","k","e"," ","T","i","k","u","b">>
    [] s = "Lake Buhi" -> <<"L","a","k","e"," ","B","u","h","i">>
    [] s = "Lake Bunot" -> <<"L","a","k","e"," ","B","u","n","o","t">>
    [] s = "Laguna_de_Bay" -> <<"L","a","g","u","n","a","_","d","e","_","B","a","y">>
    [] s = "Lake_Taal" -> <<"L","a","k","e","_","T","a","a","l">>
    [] s = "Sampaloc_Lake" -> <<"S","a","m","p","a","l","o","c","_","L","a","k","e">>
    [] s = "Yambo_Lake" -> <<"Y","a","m","b","o","_","L","a","k","e">>
    [] s = "Pandin_Lake" -> <<"P","a","n","d","i","n","_","L","a","k","e">>
    [] s = "Mohicap_Lake" -> <<"M","o","h","i","c","a","p","_","L","a","k","e">>
    [] s = "Palakpakin_Lake" -> <<"P","a","l","a","k","p","a","k","i","n","_","L","a","k","e">>
    [] s = "Nabao_Lake" -> <<"N","a","b","a","o","_","L","a","k","e">>
    [] s = "Tadlac_Lake" -> <<"T","a","d","l","a","c","_","L","a","k","e">>
    [] s = "Tikub_Lake" -> <<"T","i","k","u","b","_","L","a","k","e">>
    [] s = "Lake_Buhi" -> <<"L","a","k","e","_","B","u","h","i">>
    [] s = "Lake_Danao" -> <<"L","a","k","e","_","D","a","n","a","o">>
    [] s = "Bunot_Lake" -> <<"B","u","n","o","t","_","L","a","k","e">>
    [] s = "Laguna de Bay, Philippines" -> <<"L","a","g","u","n","a"," ","d","e"," ","B","a","y",","," ","P","h","i","l","i","p","p","i","n","e","s">>
    [] s = "lake taal" -> <<"l","a","k","e"," ","t","a","a","l">>
    [] s = "Sampaloc Lake" -> <<"S","a","m","p","a","l","o","c"," ","L","a","k","e">>
    [] s = "Taal Lake" -> <<"T","a","a","l"," ","L","a","k","e">>
    [] s = "Lake Buhi, Camarines Sur" -> <<"L","a","k","e"," ","B","u","h","i",","," ","C","a","m","a","r","i","n","e","s"," ","S","u","r">>
    [] s = "Pasig River" -> <<"P","a","s","i","g"," ","R","i","v","e","r">>

Lower(c) ==
  CASE c = "A" -> "a" [] c = "B" -> "b" [] c = "C" -> "c" [] c = "D" -> "d"
    [] c = "E" -> "e" [] c = "F" -> "f" [] c = "G" -> "g" [] c = "H" -> "h"
    [] c = "I" -> "i" [] c = "J" -> "j" [] c = "K" -> "k" [] c = "L" -> "l"
    [] c = "M" -> "m" [] c = "N" -> "n" [] c = "O" -> "o" [] c = "P" -> "p"
    [] c = "Q" -> "q" [] c = "R" -> "r" [] c = "S" -> "s" [] c = "T" -> "t"
    [] c = "U" -> "u" [] c = "V" -> "v" [] c = "W" -> "w" [] c = "X" -> "x"
    [] c = "Y" -> "y" [] c = "Z" -> "z"
    [] OTHER -> c

\* str.lower(), as pandas applies it under case=False
LowerAll(cs) == [k \in 1..Len(cs) |-> Lower(cs[k])]

\* str.replace(old, new) for one-character old and new
Replace(cs, old, new) == [k \in 1..Len(cs) |-> IF cs[k] = old THEN new ELSE cs[k]]

\* needle occurs in hay as a contiguous run of characters
Contains(hay, needle) ==
  \E k \in 0..(Len(hay) - Len(needle)) :
    \A j \in 1..Len(needle) : hay[k + j] = needle[j]

\* Series.str.contains(pat, case=False, na=False) on one cell; every lake name
\* is free of regular-expression metacharacters, so the pattern is literal
StrContains(cell, pat) ==
  IF cell = NA THEN FALSE
  ELSE Contains(LowerAll(Chars(cell)), LowerAll(pat))

----------------------------------------------------------------------------
(* Reference data *)

luzon_lakes ==
 <<
   [name |-> "Laguna de Bay", region |-> "IV-A",
    pH |-> 9120, salinity |-> 746, do |-> 7540, bod |-> 1930,
    turbidity |-> 161880, temperature |-> 28500,
    latitude |-> 14383330, longitude |-> 121250000],
   [name |-> "Lake Taal", region |-> "IV-A",
    pH |-> 8320, salinity |-> 850, do |-> 5610, bod |-> 3820,
    turbidity |-> 28000, temperature |-> 25500,
    latitude |-> 13985500, longitude |-> 121007300],
   [name |-> "Lake Sampaloc", region |-> "IV-A",
    pH |-> 7900, salinity |-> 100, do |-> 3100, bod |-> 8000,
    turbidity |-> 28000, temperature |-> 27800,
    latitude |-> 14078480, longitude |-> 121330350],
   [name |-> "Lake Yambo", region |-> "IV-A",
    pH |-> 7900, salinity |-> 100, do |-> 5000, bod |-> 2500,
    turbidity |-> 9800, temperature |-> 26500,
    latitude |-> 14118600, longitude |-> 121366000],
   [name |-> "Lake Pandin", region |-> "IV-A",
    pH |-> 7800, salinity |-> 100, do |-> 7300, bod |-> 2000,
    turbidity |-> 6500, temperature |-> 25800,
    latitude |-> 14115150, longitude |-> 121368670],
   [name |-> "Lake Mohicap", region |-> "IV-A",
    pH |-> 7700, salinity |-> 100, do |-> 4100, bod |-> 6800,
    turbidity |-> 10000, temperature |-> 26200,
    latitude |-> 14121940, longitude |-> 121334440],
   [name |-> "Lake Palakpakin", region |-> "IV-A",
    pH |-> 8000, salinity |-> 100, do |-> 5000, bod |-> 3100,
    turbidity |-> 28000, temperature |-> 24200,
    latitude |-> 14112790, longitude |-> 121339180],
   [name |-> "Lake Nabao", region |-> "IV-A",
    pH |-> 6330, salinity |-> 250, do |-> 3140, bod |-> 3000,
    turbidity |-> 3500, temperature |-> 28000,
    latitude |-> 15238427, longitude |-> 120840932],
   [name |-> "Lake Tadlac", region |-> "IV-A",
    pH |-> 7440, salinity |-> 361, do |-> 7270, bod |-> 2330,
    turbidity |-> 3500, temperature |-> 29500,
    latitude |-> 14182179, longitude |-> 121206409],
   [name |-> "Lake Tikub", region |-> "IV-A",
    pH |-> 8080, salinity |-> 100, do |-> 5530, bod |-> 2300,
    turbidity |-> 3500, temperature |-> 30400,
    latitude |-> 13963690, longitude |-> 121305970],
   [name |-> "Lake Buhi", region |-> "V",
    pH |-> 7950, salinity |-> 700, do |-> 6890, bod |-> 1760,
    turbidity |-> 6180, temperature |-> 28500,
    latitude |-> 13450000, longitude |-> 123516700],
   [name |-> "Lake Bunot", region |-> "IV-A",
    pH |-> 7200, salinity |-> 100, do |-> 7700, bod |-> 10200,
    turbidity |-> 9000, temperature |-> 28500,
    latitude |-> 14081020, longitude |-> 121343860]
 >>

luzon_lakes_Copy ==
 <<
   [name |-> "Laguna_de_Bay", region |-> "CALABARZON",
    pH |-> 9120, salinity |-> 746, do |-> 7540, bod |-> 1930,
    turbidity |-> 161880, temperature |-> 28500,
    latitude |-> 14400000, longitude |-> 121300000],
   [name |-> "Lake_Taal", region |-> "CALABARZON",
    pH |-> 8320, salinity |-> 850, do |-> 5610, bod |-> 3820,
    turbidity |-> 28000, temperature |-> 25500,
    latitude |-> 14000000, longitude |-> 120980000],
   [name |-> "Sampaloc_Lake", region |-> "CALABARZON",
    pH |-> 7900, salinity |-> 100, do |-> 3100, bod |-> 8000,
    turbidity |-> 28000, temperature |-> 27800,
    latitude |-> 14100000, longitude |-> 121180000],
   [name |-> "Yambo_Lake", region |-> "CALABARZON",
    pH |-> 7900, salinity |-> 100, do |-> 5000, bod |-> 2500,
    turbidity |-> 9800, temperature |-> 26500,
    latitude |-> 14150000, longitude |-> 121200000],
   [name |-> "Pandin_Lake", region |-> "CALABARZON",
    pH |-> 7800, salinity |-> 100, do |-> 7300, bod |-> 2000,
    turbidity |-> 6500, temperature |-> 25800,
    latitude |-> 14120000, longitude |-> 121190000],
   [name |-> "Mohicap_Lake", region |-> "CALABARZON",
    pH |-> 7700, salinity |-> 100, do |-> 4100, bod |-> 6800,
    turbidity |-> 10000, temperature |-> 26200,
    latitude |-> 14110000, longitude |-> 121170000],
   [name |-> "Palakpakin_Lake", region |-> "CALABARZON",
    pH |-> 8000, salinity |-> 100, do |-> 5000, bod |-> 3100,
    turbidity |-> 28000, temperature |-> 24200,
    latitude |-> 14130000, longitude |-> 121210000],
   [name |-> "Nabao_Lake", region |-> "CALABARZON",
    pH |-> 6330, salinity |-> 250, do |-> 3140, bod |-> 3000,
    turbidity |-> 3500, temperature |-> 28000,
    latitude |-> 14090000, longitude |-> 121160000],
   [name |-> "Tadlac_Lake", region |-> "CALABARZON",
    pH |-> 7440, salinity |-> 361, do |-> 7270, bod |-> 2330,
    turbidity |-> 3500, temperature |-> 29500,
    latitude |-> 14080000, longitude |-> 121150000],
   [name |-> "Tikub_Lake", region |-> "CALABARZON",
    pH |-> 8080, salinity |-> 100, do |-> 5530, bod |-> 2300,
    turbidity |-> 3500, temperature |-> 30400,
    latitude |-> 14160000, longitude |-> 121220000],
   [name |-> "Lake_Buhi", region |-> "Bicol",
    pH |-> 7950, salinity |-> 700, do |-> 6890, bod |-> 1760,
    turbidity |-> 6180, temperature |-> 28500,
    latitude |-> 13430000, longitude |-> 123520000],
   [name |-> "Lake_Danao", region |-> "Leyte",
    pH |-> 7810, salinity |-> 100, do |-> 7150, bod |-> 2490,
    turbidity |-> 2250, temperature |-> 29500,
    latitude |-> 11050000, longitude |-> 124950000],
   [name |-> "Bunot_Lake", region |-> "CALABARZON",
    pH |-> 7200, salinity |-> 100, do |-> 7700, bod |-> 10200,
    turbidity |-> 9000, temperature |-> 28500,
    latitude |-> 14140000, longitude |-> 121230000]
 >>

\* Rows of super_dataset.csv the loader may find.  The file is not part of the
\* source tree; these rows carry the columns the code reads (species,
\* waterbody_name, temp_pref_min, temp_pref_max) and one trait column that is
\* only copied through (trophic_level, in thousandths).
DatasetA ==
  << [species |-> "Anabas testudineus", waterbody_name |-> "Laguna de Bay, Philippines",
      temp_pref_min |-> 22000, temp_pref_max |-> 30000, trophic_level |-> 3000],
     [species |-> "Anabas testudineus", waterbody_name |-> "lake taal",
      temp_pref_min |-> 22000, temp_pref_max |-> 30000, trophic_level |-> 3000],
     [species |-> "Oreochromis niloticus", waterbody_name |-> "Sampaloc Lake",
      temp_pref_min |-> 14000, temp_pref_max |-> 27000, trophic_level |-> 2000],
     [species |-> "Oreochromis niloticus", waterbody_name |-> NA,
      temp_pref_min |-> 14000, temp_pref_max |-> 27000, trophic_level |-> 2000] >>

\* These rows also carry the water-body columns of the record's own locality
DatasetB ==
  << [species |-> "Oreochromis niloticus", waterbody_name |-> "Lake Buhi, Camarines Sur",
      temp_pref_min |-> 27000, temp_pref_max |-> 33000, trophic_level |-> 2000,
      wb_ph_min |-> 7200, wb_ph_max |-> 8400, wb_temp_min |-> 25000, wb_temp_max |-> 29000],
     [species |-> "Anabas testudineus", waterbody_name |-> "Pasig River",
      temp_pref_min |-> 25000, temp_pref_max |-> 28000, trophic_level |-> 3000,
      wb_ph_min |-> 6800, wb_ph_max |-> 7600, wb_temp_min |-> 26000, wb_temp_max |-> 31000],
     [species |-> "Oreochromis niloticus", waterbody_name |-> "Taal Lake",
      temp_pref_min |-> 27000, temp_pref_max |-> 33000, trophic_level |-> 2000,
      wb_ph_min |-> 8000, wb_ph_max |-> 8600, wb_temp_min |-> 25000, wb_temp_max |-> 27000] >>

Datasets == {DatasetA, DatasetB}

\* Species names a caller may send; the last one is the test suite's unknown
SpeciesNames == {"Anabas testudineus", "Oreochromis niloticus", "Invalid Species Name"}

\* The lake table of the imported code base
LakeTable == IF codebase = "backend" THEN luzon_lakes ELSE luzon_lakes_Copy

----------------------------------------------------------------------------
(* User readings *)

\* A reading is the six keyword arguments of get_risk_predictions.
\*   1: the test suite's ordinary reading        2: its extreme reading
\*   3: exactly the baseline of Lake Yambo
\*   4, 5: Lake Taal's baseline with turbidity 29.0 and 30.0 NTU higher
\*   6..: the ordinary reading with turbidity raised in steps of 25 NTU
ReadingAt(i) ==
  CASE i = 1 -> [temperature |-> 27000, ph |-> 7500, salinity |-> 500,
                 do |-> 6000, bod |-> 2000, turbidity |-> 10000]
    [] i = 2 -> [temperature |-> 50000, ph |-> 14000, salinity |-> 10000,
                 do |-> 0, bod |-> 20000, turbidity |-> 500000]
    [] i = 3 -> [temperature |-> 26500, ph |-> 7900, salinity |-> 100,
                 do |-> 5000, bod |-> 2500, turbidity |-> 9800]
    [] i = 4 -> [temperature |-> 25500, ph |-> 8320, salinity |-> 850,
                 do |-> 5610, bod |-> 3820, turbidity |-> 57000]
    [] i = 5 -> [temperature |-> 25500, ph |-> 8320, salinity |-> 850,
                 do |-> 5610, bod |-> 3820, turbidity |-> 58000]
    [] OTHER -> [temperature |-> 27000, ph |-> 7500, salinity |-> 500,
                 do |-> 6000, bod |-> 2000, turbidity |-> 10000 + 25000 * (i - 5)]

Readings == {ReadingAt(i) : i \in 1..NumReadings}

\* Vectors [pH, salinity, DO, BOD, turbidity, temperature] a caller hands to
\* calculate_similarity: the three of test_similarity_calculation, the baseline
\* of Lake Yambo, the extreme reading of test_edge_cases, and a finite reading
\* with a turbidity of 8000 NTU
EnvPoints ==
  { <<7500, 500, 6000, 2000, 10000, 27000>>,
    <<8000, 1000, 7000, 3000, 20000, 28000>>,
    <<9000, 5000, 3000, 8000, 100000, 30000>>,
    <<7900, 100, 5000, 2500, 9800, 26500>>,
    <<14000, 10000, 0, 20000, 500000, 50000>>,
    <<7500, 500, 6000, 2000, 8000000, 27000>> }

\* The ranges the callers are expected to keep: pH [0, 14], salinity [0, 10],
\* DO [0, 15], BOD [0, 20], turbidity [0, 500], temperature [0, 50]
InExpectedRanges(env) ==
  /\ 0 <= env[1] /\ env[1] <= 14000
  /\ 0 <= env[2] /\ env[2] <= 10000
  /\ 0 <= env[3] /\ env[3] <= 15000
  /\ 0 <= env[4] /\ env[4] <= 20000
  /\ 0 <= env[5] /\ env[5] <= 500000
  /\ 0 <= env[6] /\ env[6] <= 50000

----------------------------------------------------------------------------
(* Helper functions *)

LowThreshold == 3300

HighThreshold == 6600

\* Mutation of categorize_risk: the comparisons are turned around
categorize_risk_Inverted(score) ==
  IF score < LowThreshold THEN "High"
  ELSE IF score < HighThreshold THEN "Medium"
  ELSE "Low"

\* Mutation of categorize_risk: the Copy's thresholds 0.34 and 0.67
categorize_risk_Boundary34(score) ==
  IF score < 3400 THEN "Low"
  ELSE IF score < 6700 THEN "Medium"
  ELSE "High"

categorize_risk(score) ==
  IF score < LowThreshold THEN "Low"
  ELSE IF score < HighThreshold THEN "Medium"
  ELSE "High"

LowThreshold_Copy == 3400

HighThreshold_Copy == 6700

categorize_risk_Copy(score) ==
  IF score < LowThreshold_Copy THEN "Low"
  ELSE IF score < HighThreshold_Copy THEN "Medium"
  ELSE "High"

\* A difference of two readings, rounded to tenths of a unit (the precision the
\* distance is carried in)
Deci(x) == (Abs(x) + 50) \div 100

\* A difference of two readings, rounded to whole units
Unit(x) == (Abs(x) + 500) \div 1000

\* np.linalg.norm(user_env - lake_env): Euclidean length, in tenths of a unit.
\* Vectors with a component more than 1000 units apart are measured in whole
\* units, which keeps the squares inside the integer range.
Norm(user_env, lake_env) ==
  IF \A k \in 1..Len(user_env) : Deci(user_env[k] - lake_env[k]) <= 10000
  THEN ISqrt(SumSeq([k \in 1..Len(user_env) |->
                       Deci(user_env[k] - lake_env[k]) * Deci(user_env[k] - lake_env[k])]))
  ELSE 10 * ISqrt(SumSeq([k \in 1..Len(user_env) |->
                            Unit(user_env[k] - lake_env[k]) * Unit(user_env[k] - lake_env[k])]))

\* exp(-h), exp(-t/10), exp(-k/100) for one decimal digit, in 1/Scale
ExpHundreds == <<10000, 3679, 1353, 498, 183, 67, 25, 9, 3, 1>>

ExpTens == <<10000, 9048, 8187, 7408, 6703, 6065, 5488, 4966, 4493, 4066>>

ExpOnes == <<10000, 9900, 9802, 9704, 9608, 9512, 9418, 9324, 9231, 9139>>

\* Mutation of ExpNeg: the factor of the hundreds digit is left out
ExpNeg_NoHundreds(n) ==
  IF n >= 1000 THEN 0
  ELSE Mul(ExpTens[((n \div 10) % 10) + 1], ExpOnes[(n % 10) + 1])

\* np.exp(-n/100) for n >= 0, in 1/Scale: the product of the three digit
\* factors; below 1/Scale from n = 1000 on
ExpNeg(n) ==
  IF n >= 1000 THEN 0
  ELSE Mul(Mul(ExpHundreds[n \div 100 + 1], ExpTens[((n \div 10) % 10) + 1]),
           ExpOnes[(n % 10) + 1])

\* Mutation of ExpUnderflows: every value below 1/Scale counts as 0.0
ExpUnderflows_BelowScale(n) == n >= 1000

\* Whether the float64 np.exp(-n/100) is exactly 0.0: the result is below half
\* the smallest subnormal, 2^-1075 = exp(-745.133...), from n = 74514 on
ExpUnderflows(n) == n >= 74514

\* Mutation of calculate_similarity: a smoothing term of 0.1 is added to the
\* distance
calculate_similarity_Offset(user_env, lake_env) ==
  LET distance == Norm(user_env, lake_env)
  IN ExpNeg(distance + 1)

\* Mutation of calculate_similarity: the sign of the exponent is lost, so the
\* value grows with the distance (1 + d/10 stands for exp(+d/10))
calculate_similarity_Growing(user_env, lake_env) ==
  LET distance == Norm(user_env, lake_env)
  IN Scale + distance * (Scale \div 100)

\* similarity = exp(-distance / 10), distance in units (n is in tenths)
calculate_similarity(user_env, lake_env) ==
  LET distance == Norm(user_env, lake_env)
  IN ExpNeg(distance)

\* Outcome of a Python call: a returned value or a raised exception
Return(v) == [raised |-> FALSE, value |-> v]

Raise(type, msg) == [raised |-> TRUE, type |-> type, msg |-> msg]

\* The rows of super_dataset whose species column equals species_name
SpeciesRows(species_name) ==
  SelectSeq(super_dataset, LAMBDA r : r.species = species_name)

\* Mutation of get_species_data: an unknown species falls back to the first row
get_species_data_FirstRowDefault(species_name) ==
  LET species_row == SpeciesRows(species_name)
  IN IF species_row = <<>> THEN Return(super_dataset[1]) ELSE Return(species_row[1])

get_species_data(species_name) ==
  LET species_row == SpeciesRows(species_name)
  IN IF species_row = <<>>
     THEN Raise("ValueError", <<"Species '", species_name, "' not found in dataset.">>)
     ELSE Return(species_row[1])

check_species_presence(species_name, lake_name) ==
  LET pat == Replace(Chars(lake_name), "_", " ")
      presence_records ==
        SelectSeq(super_dataset,
                  LAMBDA r : r.species = species_name /\ StrContains(r.waterbody_name, pat))
  IN IF presence_records # <<>> THEN "Yes" ELSE "No"

check_species_presence_Copy(species_name, lake_name) ==
  LET pat == Replace(Chars(lake_name), "_", " ")
      presence_records ==
        SelectSeq(super_dataset,
                  LAMBDA r : r.species = species_name /\ StrContains(r.waterbody_name, pat))
  IN IF presence_records # <<>> THEN "Yes" ELSE "Unknown"

\* LUZON_LAKES
LUZON_LAKES ==
  <<"Laguna de Bay", "Lake Taal", "Lake Sampaloc", "Lake Yambo",
    "Lake Pandin", "Lake Mohicap", "Lake Palakpakin", "Lake Nabao",
    "Lake Tadlac", "Lake Tikub", "Lake Buhi", "Lake Bunot">>

\* LAKE_NAME_MAPPING, in the order of the dict
LAKE_NAME_MAPPING ==
  <<[variant |-> "Laguna de Bay", canonical |-> "Laguna de Bay"],
     [variant |-> "Laguna de Bay, Philippines", canonical |-> "Laguna de Bay"],
     [variant |-> "Laguna de Bay, PH", canonical |-> "Laguna de Bay"],
     [variant |-> "Laguna de Bay (East Bay)", canonical |-> "Laguna de Bay"],
     [variant |-> "Laguna de Bay (Central Bay)", canonical |-> "Laguna de Bay"],
     [variant |-> "Laguna de Bay (Station 2)", canonical |-> "Laguna de Bay"],
     [variant |-> "Laguna de Bay (Station 3)", canonical |-> "Laguna de Bay"],
     [variant |-> "Laguna Lake", canonical |-> "Laguna de Bay"],
     [variant |-> "Laguna Lake, Philippines", canonical |-> "Laguna de Bay"],
     [variant |-> "Laguna Lake (Laguna)", canonical |-> "Laguna de Bay"],
     [variant |-> "Taal Lake", canonical |-> "Lake Taal"],
     [variant |-> "Lake Taal", canonical |-> "Lake Taal"],
     [variant |-> "Lake Taal, Philippines", canonical |-> "Lake Taal"],
     [variant |-> "Lake Taal, Batangas", canonical |-> "Lake Taal"],
     [variant |-> "Lake Taal (Batangas)", canonical |-> "Lake Taal"],
     [variant |-> "Taal Lake, Philippines", canonical |-> "Lake Taal"],
     [variant |-> "Taal Freshwater Pond", canonical |-> "Lake Taal"],
     [variant |-> "Lake Sampaloc", canonical |-> "Lake Sampaloc"],
     [variant |-> "Sampaloc Lake", canonical |-> "Lake Sampaloc"],
     [variant |-> "Lake Sampaloc, Quezon", canonical |-> "Lake Sampaloc"],
     [variant |-> "Lake Sampaloc (San Pablo)", canonical |-> "Lake Sampaloc"],
     [variant |-> "Lake Sampaloc, Philippines", canonical |-> "Lake Sampaloc"],
     [variant |-> "Lake Buhi", canonical |-> "Lake Buhi"],
     [variant |-> "Lake Buhi, Camarines Sur", canonical |-> "Lake Buhi"],
     [variant |-> "Lake Buhi, Philippines", canonical |-> "Lake Buhi"],
     [variant |-> "Buhi Lake", canonical |-> "Lake Buhi"],
     [variant |-> "Lake Yambo", canonical |-> "Lake Yambo"],
     [variant |-> "Yambo Lake", canonical |-> "Lake Yambo"],
     [variant |-> "Lake Yambo, Laguna", canonical |-> "Lake Yambo"],
     [variant |-> "Lake Pandin", canonical |-> "Lake Pandin"],
     [variant |-> "Pandin Lake", canonical |-> "Lake Pandin"],
     [variant |-> "Lake Pandin, Laguna", canonical |-> "Lake Pandin"],
     [variant |-> "Lake Palakpakin", canonical |-> "Lake Palakpakin"],
     [variant |-> "Palakpakin Lake", canonical |-> "Lake Palakpakin"],
     [variant |-> "Lake Palakpakin, Laguna", canonical |-> "Lake Palakpakin"],
     [variant |-> "Lake Bunot", canonical |-> "Lake Bunot"],
     [variant |-> "Bunot Lake", canonical |-> "Lake Bunot"],
     [variant |-> "Lake Bunot, Laguna", canonical |-> "Lake Bunot"],
     [variant |-> "Lake Mohicap", canonical |-> "Lake Mohicap"],
     [variant |-> "Mohicap Lake", canonical |-> "Lake Mohicap"],
     [variant |-> "Lake Nabao", canonical |-> "Lake Nabao"],
     [variant |-> "Nabao Lake", canonical |-> "Lake Nabao"],
     [variant |-> "Lake Tadlac", canonical |-> "Lake Tadlac"],
     [variant |-> "Tadlac Lake", canonical |-> "Lake Tadlac"],
     [variant |-> "Lake Tikub", canonical |-> "Lake Tikub"],
     [variant |-> "Tikub Lake", canonical |-> "Lake Tikub"]>>

\* Mutation of normalize_lake_name: a name outside the mapping is passed on
normalize_lake_name_PassThrough(lake_name) ==
  IF \E k \in 1..Len(LAKE_NAME_MAPPING) : LAKE_NAME_MAPPING[k].variant = lake_name
  THEN <<LAKE_NAME_MAPPING[CHOOSE k \in 1..Len(LAKE_NAME_MAPPING) :
                             LAKE_NAME_MAPPING[k].variant = lake_name].canonical>>
  ELSE <<lake_name>>

\* normalize_lake_name(lake_name): Optional[str], as a sequence of at most one
\* name
normalize_lake_name(lake_name) ==
  IF \E k \in 1..Len(LAKE_NAME_MAPPING) : LAKE_NAME_MAPPING[k].variant = lake_name
  THEN <<LAKE_NAME_MAPPING[CHOOSE k \in 1..Len(LAKE_NAME_MAPPING) :
                             LAKE_NAME_MAPPING[k].variant = lake_name].canonical>>
  ELSE <<>>

\* Python's None as a returned value
PyNone == [none_type |-> TRUE]

\* Lake names a caller may ask for: the names of both lake tables, and names
\* that differ from a table's name in case, in a suffix, or altogether
LakeQueries ==
  {luzon_lakes[k].name : k \in 1..Len(luzon_lakes)}
    \cup {luzon_lakes_Copy[k].name : k \in 1..Len(luzon_lakes_Copy)}
    \cup {"lake taal", "Laguna de Bay, Philippines", "Taal Lake", "Pasig River"}

\* Mutation of get_lake_info: the name is compared without regard to case
get_lake_info_IgnoreCase(lake_name) ==
  LET lake_data ==
        SelectSeq(LakeTable,
                  LAMBDA r : LowerAll(Chars(r.name)) = LowerAll(Chars(lake_name)))
  IN IF lake_data = <<>> THEN PyNone
     ELSE [name |-> lake_data[1].name, region |-> lake_data[1].region,
           latitude |-> lake_data[1].latitude, longitude |-> lake_data[1].longitude,
           environmental_parameters |->
             [pH |-> lake_data[1].pH, salinity_ppt |-> lake_data[1].salinity,
              dissolved_oxygen_mgL |-> lake_data[1].do, bod_mgL |-> lake_data[1].bod,
              turbidity_ntu |-> lake_data[1].turbidity,
              temperature_c |-> lake_data[1].temperature]]

\* get_lake_info(lake_name): the rows whose 'Lake Name' equals lake_name; None
\* when there is none, else the first of them as a dict
get_lake_info(lake_name) ==
  LET lake_data == SelectSeq(LakeTable, LAMBDA r : r.name = lake_name)
  IN IF lake_data = <<>> THEN PyNone
     ELSE LET lake == lake_data[1]
          IN [name |-> lake.name, region |-> lake.region,
              latitude |-> lake.latitude, longitude |-> lake.longitude,
              environmental_parameters |->
                [pH |-> lake.pH, salinity_ppt |-> lake.salinity,
                 dissolved_oxygen_mgL |-> lake.do, bod_mgL |-> lake.bod,
                 turbidity_ntu |-> lake.turbidity, temperature_c |-> lake.temperature]]

----------------------------------------------------------------------------
(* Models and preprocessors *)

Variants == {"baseline", "ooa", "mooa"}

\* model_choice values a caller may send; any value other than "baseline" and
\* "ooa" selects the MOOA pair
ModelChoices == {"baseline", "ooa", "mooa", "xgboost"}

\* A module global that holds None after a failed load
None == [loaded |-> FALSE, file |-> ""]

Loaded(file) == [loaded |-> TRUE, file |-> file]

\* The six files backend.py loads at import
LoadSlots == Variants \X {"model", "preprocessor"}

\* Mutation of get_model_and_preprocessor: model_choice is ignored
get_model_and_preprocessor_IgnoresChoice(model_choice) ==
  <<models["mooa"].model, models["mooa"].preprocessor>>

get_model_and_preprocessor(model_choice) ==
  IF model_choice = "baseline"
  THEN <<models["baseline"].model, models["baseline"].preprocessor>>
  ELSE IF model_choice = "ooa"
  THEN <<models["ooa"].model, models["ooa"].preprocessor>>
  ELSE <<models["mooa"].model, models["mooa"].preprocessor>>

\* Points of a scoring call at which the environment (pandas, scikit-learn,
\* xgboost) may raise: a missing trait column, a preprocessor mismatch, a model
\* fault, a non-text locality column
Faults == {"none", "features", "transform", "predict_proba", "presence"}

\* The columns the column transformers were fitted on
FittedColumns ==
  {"temp_pref_range", "wb_ph_range", "wb_temp_range", "temp_in_pref_range",
   "fish_ph_pref", "ph_difference", "input_temp", "input_turbidity", "trophic_level",
   "wb_ph_min", "wb_ph_max", "wb_salinity_min", "wb_salinity_max",
   "wb_do_min", "wb_do_max", "wb_bod_min", "wb_bod_max",
   "wb_turbidity_min", "wb_turbidity_max", "wb_temp_min", "wb_temp_max"}

\* preprocessor.transform(input_df): the fitted column transformer keeps the
\* columns it was fitted on
preprocessor_transform(preprocessor, input_df) ==
  [i \in 1..Len(input_df) |-> [f \in FittedColumns |-> input_df[i][f]]]

\* One trained classifier's positive-class probability for one processed row,
\* in 1/Scale.  The trained trees are not part of the source tree: the model is
\* a frozen function of the processed row that differs from file to file, with
\* values from 0 to Scale in steps of a tenth.
ModelProb(model, x) ==
  LET w == IF model.file = "baseline" THEN 1
           ELSE IF model.file = "ooa" THEN 2 ELSE 4
      h == (x.ph_difference \div 100) * 7 + (x.wb_turbidity_max \div 1000) * w
           + x.temp_in_pref_range * 5 + (x.temp_pref_range \div 1000)
           + (x.wb_temp_max \div 100) * 3 + (x.input_turbidity \div 1000)
           + (x.trophic_level \div 1000) * w
  IN (h % 11) * (Scale \div 10)

\* model.predict_proba(X_processed)[:, 1]
predict_proba(model, X_processed) ==
  [i \in 1..Len(X_processed) |-> ModelProb(model, X_processed[i])]

----------------------------------------------------------------------------
(* Feature Builder, as get_risk_predictions inlines it *)

\* Mutation of BuildRow: the upper bounds of the water body are the user's
\* readings
BuildRow_InputAsMax(species_dict, lake, temperature, ph, salinity, do, bod, turbidity) ==
  [species |-> species_dict.species,
   temp_pref_min |-> species_dict.temp_pref_min,
   temp_pref_max |-> species_dict.temp_pref_max,
   trophic_level |-> species_dict.trophic_level,
   waterbody_name |-> lake.name,
   wb_ph_min |-> lake.pH, wb_ph_max |-> ph,
   wb_salinity_min |-> lake.salinity, wb_salinity_max |-> salinity,
   wb_do_min |-> lake.do, wb_do_max |-> do,
   wb_bod_min |-> lake.bod, wb_bod_max |-> bod,
   wb_turbidity_min |-> lake.turbidity, wb_turbidity_max |-> turbidity,
   wb_temp_min |-> lake.temperature, wb_temp_max |-> temperature,
   input_temp |-> temperature, input_ph |-> ph, input_salinity |-> salinity,
   input_do |-> do, input_bod |-> bod, input_turbidity |-> turbidity]

\* row = {**species_dict}; row.update({...}) for one lake
BuildRow(species_dict, lake, temperature, ph, salinity, do, bod, turbidity) ==
  [species |-> species_dict.species,
   temp_pref_min |-> species_dict.temp_pref_min,
   temp_pref_max |-> species_dict.temp_pref_max,
   trophic_level |-> species_dict.trophic_level,
   waterbody_name |-> lake.name,
   wb_ph_min |-> lake.pH, wb_ph_max |-> lake.pH,
   wb_salinity_min |-> lake.salinity, wb_salinity_max |-> lake.salinity,
   wb_do_min |-> lake.do, wb_do_max |-> lake.do,
   wb_bod_min |-> lake.bod, wb_bod_max |-> lake.bod,
   wb_turbidity_min |-> lake.turbidity, wb_turbidity_max |-> lake.turbidity,
   wb_temp_min |-> lake.temperature, wb_temp_max |-> lake.temperature,
   input_temp |-> temperature, input_ph |-> ph, input_salinity |-> salinity,
   input_do |-> do, input_bod |-> bod, input_turbidity |-> turbidity]

\* The six derived columns, in the order the code assigns them
EngineerFeatures(row) ==
  LET temp_pref_range == row.temp_pref_max - row.temp_pref_min
      wb_ph_range == row.wb_ph_max - row.wb_ph_min
      wb_temp_range == row.wb_temp_max - row.wb_temp_min
      temp_in_pref_range ==
        IF row.input_temp >= row.temp_pref_min /\ row.input_temp <= row.temp_pref_max
        THEN 1 ELSE 0
      fish_ph_pref == (row.wb_ph_min + row.wb_ph_max) \div 2
      ph_difference == Abs(fish_ph_pref - row.input_ph)
  IN row @@ [temp_pref_range |-> temp_pref_range, wb_ph_range |-> wb_ph_range,
             wb_temp_range |-> wb_temp_range, temp_in_pref_range |-> temp_in_pref_range,
             fish_ph_pref |-> fish_ph_pref, ph_difference |-> ph_difference]

\* The float NaN
NaN == -2147483647

\* DataFrame.get(col, default)
DataFrameGet(row, col, default) == IF col \in DOMAIN row THEN row[col] ELSE default

\* The index label of the row get_species_data returns: read_csv numbers the
\* rows from 0
FirstLabel(species_name) ==
  (CHOOSE i \in 1..Len(super_dataset) :
     /\ super_dataset[i].species = species_name
     /\ \A j \in 1..(i - 1) : super_dataset[j].species # species_name) - 1

\* The index label of species_row.get(col, species_row.get(alt, pd.Series([x]))):
\* a column carries the label of the row, the fallback Series the label 0
PhLabel(row, label, col, alt) ==
  IF col \in DOMAIN row \/ alt \in DOMAIN row THEN label ELSE 0

\* build_single_input_row (src/backend): the species row with the six inputs
\* and four derived columns.  fish_ph_pref is taken from the species' own
\* ph_min/ph_max (or pH_min/pH_max) columns, with the fallback Series 6.0 and
\* 8.0; the assignment aligns the Series on the row's index label, so a value
\* under another label is stored as NaN.  When get_species_data raises, the
\* handler's print of type(species_data) raises in its turn.
build_single_input_row(species, temperature, ph, salinity, dissolved_oxygen, bod, turbidity) ==
  LET species_data == get_species_data(species)
  IN IF species_data.raised
     THEN Raise("UnboundLocalError", <<"species_data">>)
     ELSE
       LET label == FirstLabel(species)
           species_row ==
             [input_temp |-> temperature, input_ph |-> ph, input_salinity |-> salinity,
              input_do |-> dissolved_oxygen, input_bod |-> bod,
              input_turbidity |-> turbidity] @@ species_data.value
           temp_pref_min == DataFrameGet(species_row, "temp_pref_min", 20000)
           temp_pref_max == DataFrameGet(species_row, "temp_pref_max", 30000)
           ph_min == DataFrameGet(species_row, "ph_min",
                                  DataFrameGet(species_row, "pH_min", 6000))
           ph_max == DataFrameGet(species_row, "ph_max",
                                  DataFrameGet(species_row, "pH_max", 8000))
           fish_ph_pref ==
             IF /\ PhLabel(species_row, label, "ph_min", "pH_min") = label
                /\ PhLabel(species_row, label, "ph_max", "pH_max") = label
             THEN (ph_min + ph_max) \div 2
             ELSE NaN
       IN Return([temp_pref_range |-> temp_pref_max - temp_pref_min,
                  temp_in_pref_range |->
                    IF species_row.input_temp >= temp_pref_min
                       /\ species_row.input_temp <= temp_pref_max THEN 1 ELSE 0,
                  fish_ph_pref |-> fish_ph_pref,
                  ph_difference |-> IF fish_ph_pref = NaN THEN NaN
                                    ELSE Abs(fish_ph_pref - species_row.input_ph)]
                 @@ species_row)

\* max(0, x)
Max0(x) == IF x < 0 THEN 0 ELSE x

\* The row of the feature-importance endpoint (src/backend/flask_api.py): the
\* species columns and a "Generic" water body whose minima and maxima lie
\* around the user's reading
BuildImportanceRow(species_dict, temperature, ph, salinity, dissolved_oxygen, bod, turbidity) ==
  [waterbody_name |-> "Generic",
   wb_ph_min |-> ph - 500, wb_ph_max |-> ph + 500,
   wb_salinity_min |-> Max0(salinity - 1000), wb_salinity_max |-> salinity + 1000,
   wb_do_min |-> Max0(dissolved_oxygen - 1000), wb_do_max |-> dissolved_oxygen + 1000,
   wb_bod_min |-> Max0(bod - 1000), wb_bod_max |-> bod + 1000,
   wb_turbidity_min |-> Max0(turbidity - 10000), wb_turbidity_max |-> turbidity + 10000,
   wb_temp_min |-> temperature - 2000, wb_temp_max |-> temperature + 2000,
   input_temp |-> temperature, input_ph |-> ph, input_salinity |-> salinity,
   input_do |-> dissolved_oxygen, input_bod |-> bod, input_turbidity |-> turbidity]
  @@ species_dict

----------------------------------------------------------------------------
(* Scoring Orchestrator *)

\* lake_env = np.array([pH, salinity, DO, BOD, turbidity, temperature])
LakeEnv(lake) ==
  <<lake.pH, lake.salinity, lake.do, lake.bod, lake.turbidity, lake.temperature>>

RECURSIVE InsertDescBeforeTies(_, _)
\* Mutation of InsertDesc: x goes before the elements with an equal key
InsertDescBeforeTies(sorted, x) ==
  IF sorted = <<>> THEN <<x>>
  ELSE IF Head(sorted).adjusted_score > x.adjusted_score
  THEN <<Head(sorted)>> \o InsertDescBeforeTies(Tail(sorted), x)
  ELSE <<x>> \o sorted

RECURSIVE InsertAsc(_, _)
\* Mutation of InsertDesc: ascending order (reverse=True forgotten)
InsertAsc(sorted, x) ==
  IF sorted = <<>> THEN <<x>>
  ELSE IF Head(sorted).adjusted_score <= x.adjusted_score
  THEN <<Head(sorted)>> \o InsertAsc(Tail(sorted), x)
  ELSE <<x>> \o sorted

RECURSIVE InsertDesc(_, _)
\* x goes after every element whose key is >= its own: equal keys keep their order
InsertDesc(sorted, x) ==
  IF sorted = <<>> THEN <<x>>
  ELSE IF Head(sorted).adjusted_score >= x.adjusted_score
  THEN <<Head(sorted)>> \o InsertDesc(Tail(sorted), x)
  ELSE <<x>> \o sorted

RECURSIVE SortInto(_, _)
SortInto(sorted, rest) ==
  IF rest = <<>> THEN sorted
  ELSE SortInto(InsertDesc(sorted, Head(rest)), Tail(rest))

RECURSIVE SortIntoUnique(_, _)
SortIntoUnique(sorted, rest) ==
  IF rest = <<>> THEN sorted
  ELSE SortIntoUnique(
         IF \E k \in 1..Len(sorted) : sorted[k].adjusted_score = Head(rest).adjusted_score
         THEN sorted ELSE InsertDesc(sorted, Head(rest)),
         Tail(rest))

\* Mutation of SortByAdjustedScoreDesc: the records are keyed by their score, so
\* of several records with one score only the first survives
SortByAdjustedScoreDesc_Unique(predictions) == SortIntoUnique(<<>>, predictions)

\* predictions.sort(key=lambda x: x["adjusted_score"], reverse=True): list.sort
\* is stable, also with reverse=True
SortByAdjustedScoreDesc(predictions) == SortInto(<<>>, predictions)

WarningThreshold == 500

WarningText ==
  "Your inputs differ significantly from all lake baselines. Predictions may be unreliable."

\* Mutation of AttachWarning: the warning is attached to every result
AttachWarning_Always(predictions, similarities) ==
  [predictions |-> predictions, warning |-> WarningText]

\* Mutation of AttachWarning: the warning goes by the adjusted scores
AttachWarning_OnScores(predictions, similarities) ==
  IF \A k \in 1..Len(predictions) : predictions[k].adjusted_score < WarningThreshold
  THEN [predictions |-> predictions, warning |-> WarningText]
  ELSE [predictions |-> predictions]

\* Mutation of AttachWarning: min() instead of max()
AttachWarning_Min(predictions, similarities) ==
  IF \E k \in 1..Len(similarities) : similarities[k] < WarningThreshold
  THEN [predictions |-> predictions, warning |-> WarningText]
  ELSE [predictions |-> predictions]

\* if similarities.max() < 0.05: result["warning"] = ...
AttachWarning(predictions, similarities) ==
  IF MaxSeq(similarities) < WarningThreshold
  THEN [predictions |-> predictions, warning |-> WarningText]
  ELSE [predictions |-> predictions]

\* Steps 2 to 8 of get_risk_predictions, shared by both code bases: the rows,
\* the prediction, the similarities, the records, the sort and the warning.
\* cb names the code base, whose lake table, categorize_risk and
\* check_species_presence are used.
ScoreLakes(cb, species_name, species_dict, temperature, ph, salinity, do, bod, turbidity, model, preprocessor, fault) ==
  IF fault = "features" THEN Raise("KeyError", <<"temp_pref_max">>)
  ELSE IF fault = "transform" THEN Raise("ValueError", <<"preprocessor.transform">>)
  ELSE IF fault = "predict_proba" THEN Raise("XGBoostError", <<"model.predict_proba">>)
  ELSE IF fault = "presence" THEN Raise("AttributeError", <<"waterbody_name.str">>)
  ELSE
    LET lakes == IF cb = "backend" THEN luzon_lakes ELSE luzon_lakes_Copy
        input_df ==
          [i \in 1..Len(lakes) |->
             EngineerFeatures(BuildRow(species_dict, lakes[i], temperature, ph,
                                       salinity, do, bod, turbidity))]
        X_processed == preprocessor_transform(preprocessor, input_df)
        raw_probabilities == predict_proba(model, X_processed)
        user_env == <<ph, salinity, do, bod, turbidity, temperature>>
        similarities ==
          [i \in 1..Len(lakes) |-> calculate_similarity(user_env, LakeEnv(lakes[i]))]
        adjusted_scores ==
          [i \in 1..Len(lakes) |-> Mul(raw_probabilities[i], similarities[i])]
        predictions ==
          [i \in 1..Len(lakes) |->
             [lake_name |-> lakes[i].name,
              region |-> lakes[i].region,
              latitude |-> lakes[i].latitude,
              longitude |-> lakes[i].longitude,
              raw_score |-> raw_probabilities[i],
              adjusted_score |-> adjusted_scores[i],
              risk_level |-> IF cb = "backend" THEN categorize_risk(adjusted_scores[i])
                            ELSE categorize_risk_Copy(adjusted_scores[i]),
              similarity |-> similarities[i],
              presence |-> IF cb = "backend"
                          THEN check_species_presence(species_name, lakes[i].name)
                          ELSE check_species_presence_Copy(species_name, lakes[i].name)]]
    IN Return(AttachWarning(SortByAdjustedScoreDesc(predictions), similarities))

\* The try block of get_risk_predictions (src/backend): model lookup first,
\* then the species lookup, then the batch
get_risk_predictions_try(species_name, temperature, ph, salinity, do, bod, turbidity, model_choice, fault) ==
  LET mp == get_model_and_preprocessor(model_choice)
      model == mp[1]
      preprocessor == mp[2]
  IN IF model = None \/ preprocessor = None
     THEN Raise("ValueError",
                <<"Model or preprocessor not available for choice: ", model_choice>>)
     ELSE LET species_row == get_species_data(species_name)
          IN IF species_row.raised THEN species_row
             ELSE ScoreLakes("backend", species_name, species_row.value,
                             temperature, ph, salinity, do, bod, turbidity,
                             model, preprocessor, fault)

\* Mutation of CatchException: no except clause, the exception reaches the
\* caller
Escaped(outcome) ==
  IF outcome.raised THEN [exception |-> outcome.type, msg |-> outcome.msg]
  ELSE outcome.value

\* except Exception as e: return {"error": str(e)}
CatchException(outcome) ==
  IF outcome.raised THEN [error |-> outcome.msg] ELSE outcome.value

get_risk_predictions(species_name, temperature, ph, salinity, do, bod, turbidity, model_choice, fault) ==
  CatchException(get_risk_predictions_try(species_name, temperature, ph, salinity,
                                          do, bod, turbidity, model_choice, fault))

\* The steps ScoreLakes has begun when it returns or raises under fault:
\* "build" the rows and their derived columns, "predict" transform and
\* predict_proba, "similarity", "adjust", "records" the prediction dicts with
\* category and presence, "rank" the sort, "flag" the warning
StepsUntil(fault) ==
  IF fault = "features" THEN <<"build">>
  ELSE IF fault \in {"transform", "predict_proba"} THEN <<"build", "predict">>
  ELSE IF fault = "presence"
  THEN <<"build", "predict", "similarity", "adjust", "records">>
  ELSE <<"build", "predict", "similarity", "adjust", "records", "rank", "flag">>

\* Mutation of ScoringSteps: the rows are built before the species is looked up
ScoringSteps_BuildFirst(cb, species_name, model_choice, fault) ==
  <<"build", "validate">> \o
    (IF get_species_data(species_name).raised THEN <<>> ELSE Tail(StepsUntil(fault)))

\* The steps a call of get_risk_predictions has begun when it ends, in the
\* order of the statements of the try block: "select" the variant (src/backend
\* only), "validate" the species lookup, then the steps of ScoreLakes
ScoringSteps(cb, species_name, model_choice, fault) ==
  IF cb = "backend"
  THEN IF get_model_and_preprocessor(model_choice)[1] = None
          \/ get_model_and_preprocessor(model_choice)[2] = None
       THEN <<"select">>
       ELSE IF get_species_data(species_name).raised THEN <<"select", "validate">>
       ELSE <<"select", "validate">> \o StepsUntil(fault)
  ELSE IF get_species_data(species_name).raised THEN <<"validate">>
       ELSE <<"validate">> \o StepsUntil(fault)

\* The try block of get_risk_predictions (Copy): one global model, species
\* lookup first
get_risk_predictions_try_Copy(species_name, temperature, ph, salinity, do, bod, turbidity, fault) ==
  LET species_row == get_species_data(species_name)
  IN IF species_row.raised THEN species_row
     ELSE ScoreLakes("copy", species_name, species_row.value,
                     temperature, ph, salinity, do, bod, turbidity,
                     models["mooa"].model, models["mooa"].preprocessor, fault)

get_risk_predictions_Copy(species_name, temperature, ph, salinity, do, bod, turbidity, fault) ==
  CatchException(get_risk_predictions_try_Copy(species_name, temperature, ph,
                                               salinity, do, bod, turbidity, fault))

----------------------------------------------------------------------------
(* Importance analysis of src/backend (SHAP) *)

\* preprocessor.get_feature_names_out(): the fitted columns under the prefix of
\* the numeric transformer
get_feature_names_out ==
  <<"num__temp_pref_range", "num__wb_ph_range", "num__wb_temp_range",
    "num__temp_in_pref_range", "num__fish_ph_pref", "num__ph_difference",
    "num__input_temp", "num__input_turbidity", "num__trophic_level",
    "num__wb_ph_min", "num__wb_ph_max", "num__wb_salinity_min", "num__wb_salinity_max",
    "num__wb_do_min", "num__wb_do_max", "num__wb_bod_min", "num__wb_bod_max",
    "num__wb_turbidity_min", "num__wb_turbidity_max", "num__wb_temp_min",
    "num__wb_temp_max">>

\* core_feature_groups of get_feature_importance_plots, in dict order
core_feature_groups ==
  << [param |-> "pH", feature_list |-> <<"num__wb_ph_min", "num__wb_ph_max">>],
     [param |-> "Salinity",
      feature_list |-> <<"num__wb_salinity_min", "num__wb_salinity_max">>],
     [param |-> "Dissolved Oxygen", feature_list |-> <<"num__wb_do_min", "num__wb_do_max">>],
     [param |-> "BOD", feature_list |-> <<"num__wb_bod_min", "num__wb_bod_max">>],
     [param |-> "Turbidity",
      feature_list |-> <<"num__wb_turbidity_min", "num__wb_turbidity_max">>],
     [param |-> "Temperature",
      feature_list |-> <<"num__wb_temp_min", "num__wb_temp_max">>] >>

\* Outcomes of explainer.shap_values(X_processed): the mean |SHAP value| of each
\* feature over the rows, in thousandths; a feature that is not named has 0.
\* The values depend on the trained model and on the rows, neither of which is
\* part of the source tree.
ShapTables ==
  { [num__wb_ph_min |-> 400, num__wb_ph_max |-> 200,
     num__wb_salinity_min |-> 100, num__wb_salinity_max |-> 100,
     num__wb_do_min |-> 50, num__wb_do_max |-> 150,
     num__wb_turbidity_min |-> 600, num__wb_turbidity_max |-> 200,
     num__wb_temp_min |-> 300, num__wb_temp_max |-> 300,
     num__input_temp |-> 900, num__ph_difference |-> 700],
    [num__wb_ph_min |-> 0],
    [num__input_temp |-> 500, num__trophic_level |-> 250],
    [num__wb_ph_min |-> 1000, num__wb_ph_max |-> 1000] }

ShapValue(shap, f) == IF f \in DOMAIN shap THEN shap[f] ELSE 0

\* The elements of a sequence as a set
Range(seq) == {seq[k] : k \in 1..Len(seq)}

RECURSIVE InsertDescBy(_, _, _)
\* x goes after every element whose value under key is >= its own
InsertDescBy(sorted, x, key) ==
  IF sorted = <<>> THEN <<x>>
  ELSE IF Head(sorted)[key] >= x[key]
  THEN <<Head(sorted)>> \o InsertDescBy(Tail(sorted), x, key)
  ELSE <<x>> \o sorted

RECURSIVE SortDescInto(_, _, _)
SortDescInto(sorted, rest, key) ==
  IF rest = <<>> THEN sorted
  ELSE SortDescInto(InsertDescBy(sorted, Head(rest), key), Tail(rest), key)

\* list.sort(key=lambda x: x[key], reverse=True)
SortDescBy(entries, key) == SortDescInto(<<>>, entries, key)

\* list.sort(key=lambda x: x['total_importance'], reverse=True)
SortByTotalImportanceDesc(entries) == SortDescBy(entries, "total_importance")

\* Mutation of Percent: the factor 100 is left out
Percent_Fraction(part, whole) == (part * 100) \div whole

\* A percentage, in hundredths of a percent: part / whole * 100
Percent(part, whole) == (part * 10000) \div whole

\* Mutation of PercentOrZero: an empty whole counts as 100 percent
PercentOrZero_FullWhenEmpty(part, whole) ==
  IF whole > 0 THEN Percent(part, whole) ELSE 10000

\* (part / whole * 100) if whole > 0 else 0
PercentOrZero(part, whole) == IF whole > 0 THEN Percent(part, whole) ELSE 0

\* Faults of the SHAP analysis: the import of shap, and the explainer
PlotFaults == {"none", "import_shap", "shap_values"}

\* The try block of get_feature_importance_plots for the rows input_data
get_feature_importance_plots_try(input_data, preprocessor, shap, fault) ==
  IF \E i \in 1..Len(input_data) :
       \E c \in FittedColumns \ {"wb_ph_range", "wb_temp_range"} : c \notin DOMAIN input_data[i]
  THEN Raise("ValueError", <<"columns are missing">>)
  ELSE IF fault = "shap_values" THEN Raise("Exception", <<"shap_values">>)
  ELSE
    LET feature_names == get_feature_names_out
        groups ==
          SelectSeq(core_feature_groups,
                    LAMBDA g : \E k \in 1..Len(g.feature_list) :
                                  g.feature_list[k] \in Range(feature_names))
        grouped_data ==
          [k \in 1..Len(groups) |->
             LET valid == SelectSeq(groups[k].feature_list,
                                    LAMBDA f : f \in Range(feature_names))
             IN [parameter |-> groups[k].param,
                 total_importance |->
                   SumSeq([j \in 1..Len(valid) |-> ShapValue(shap, valid[j])]) \div Len(valid),
                 feature_count |-> Len(valid),
                 features |-> valid]]
        sorted == SortByTotalImportanceDesc(grouped_data)
        total_importance == SumSeq([k \in 1..Len(sorted) |-> sorted[k].total_importance])
    IN Return([aggregated_importance |->
                 [k \in 1..Len(sorted) |->
                    [percentage |-> PercentOrZero(sorted[k].total_importance,
                                                  total_importance)] @@ sorted[k]],
               plot_base64 |-> "iVBORw0KGgo",
               plot_format |-> "png"])

\* get_feature_importance_plots(input_data, model_choice): the import of shap
\* and the model check stand before the try block; an exception inside the
\* block is raised again as a RuntimeError
get_feature_importance_plots(input_data, model_choice, shap, fault) ==
  IF fault = "import_shap" THEN Raise("ModuleNotFoundError", <<"No module named 'shap'">>)
  ELSE
    LET mp == get_model_and_preprocessor(model_choice)
    IN IF mp[1] = None \/ mp[2] = None
       THEN Raise("ValueError", <<"Model/preprocessor not available for ", model_choice>>)
       ELSE LET outcome == get_feature_importance_plots_try(input_data, mp[2], shap, fault)
            IN IF outcome.raised
               THEN Raise("RuntimeError", <<"SHAP analysis failed: ", outcome.msg>>)
               ELSE outcome

\* The try block of the endpoint POST /api/interpretation/feature-importance
get_feature_importance_try(species_name, temperature, ph, salinity, dissolved_oxygen, bod, turbidity, shap, fault) ==
  LET species_row == get_species_data(species_name)
  IN IF species_row.raised THEN species_row
     ELSE
       LET row == BuildImportanceRow(species_row.value, temperature, ph, salinity,
                                     dissolved_oxygen, bod, turbidity)
           input_df == <<EngineerFeatures(row)>>
           importance_data == get_feature_importance_plots(input_df, "mooa", shap, fault)
       IN IF importance_data.raised THEN importance_data
          ELSE Return([success |-> TRUE, data |-> importance_data.value, status |-> 200])

\* The endpoint: an exception becomes the failure response with status 500
get_feature_importance(species_name, temperature, ph, salinity, dissolved_oxygen, bod, turbidity, shap, fault) ==
  LET outcome == get_feature_importance_try(species_name, temperature, ph, salinity,
                                            dissolved_oxygen, bod, turbidity, shap, fault)
  IN IF outcome.raised
     THEN [success |-> FALSE, error |-> <<"SHAP analysis failed: ", outcome.msg>>,
           status |-> 500]
     ELSE outcome.value

----------------------------------------------------------------------------
(* Importance analysis of the Copy (gain) *)

\* general_preprocessor.get_feature_names_out()
feature_names_Copy ==
  <<"num__wb_pH_min", "num__wb_salinity_max", "num__wb_do_min", "num__wb_bod_max",
    "num__wb_turbidity_max", "num__input_temp", "num__trophic_level",
    "num__ph_temp_index", "cat__habitat_lake">>

\* f"f{i}"
BoosterKey(i) ==
  CASE i = 0 -> "f0"
    [] i = 1 -> "f1"
    [] i = 2 -> "f2"
    [] i = 3 -> "f3"
    [] i = 4 -> "f4"
    [] i = 5 -> "f5"
    [] i = 6 -> "f6"
    [] i = 7 -> "f7"
    [] i = 8 -> "f8"

\* The characters of a feature name, of a raw booster key and of a keyword
NameChars(s) ==
  CASE s = "num__wb_pH_min" -> <<"n","u","m","_","_","w","b","_","p","H","_","m","i","n">>
    [] s = "num__wb_salinity_max" -> <<"n","u","m","_","_","w","b","_","s","a","l","i","n","i","t","y","_","m","a","x">>
    [] s = "num__wb_do_min" -> <<"n","u","m","_","_","w","b","_","d","o","_","m","i","n">>
    [] s = "num__wb_bod_max" -> <<"n","u","m","_","_","w","b","_","b","o","d","_","m","a","x">>
    [] s = "num__wb_turbidity_max" -> <<"n","u","m","_","_","w","b","_","t","u","r","b","i","d","i","t","y","_","m","a","x">>
    [] s = "num__input_temp" -> <<"n","u","m","_","_","i","n","p","u","t","_","t","e","m","p">>
    [] s = "num__trophic_level" -> <<"n","u","m","_","_","t","r","o","p","h","i","c","_","l","e","v","e","l">>
    [] s = "num__ph_temp_index" -> <<"n","u","m","_","_","p","h","_","t","e","m","p","_","i","n","d","e","x">>
    [] s = "cat__habitat_lake" -> <<"c","a","t","_","_","h","a","b","i","t","a","t","_","l","a","k","e">>
    [] s = "f0" -> <<"f","0">>
    [] s = "f1" -> <<"f","1">>
    [] s = "f2" -> <<"f","2">>
    [] s = "f3" -> <<"f","3">>
    [] s = "f4" -> <<"f","4">>
    [] s = "f5" -> <<"f","5">>
    [] s = "f6" -> <<"f","6">>
    [] s = "f7" -> <<"f","7">>
    [] s = "f8" -> <<"f","8">>
    [] s = "f20" -> <<"f","2","0">>
    [] s = "ph" -> <<"p","h">>
    [] s = "_ph_" -> <<"_","p","h","_">>
    [] s = "ph_" -> <<"p","h","_">>
    [] s = "salinity" -> <<"s","a","l","i","n","i","t","y">>
    [] s = "sal_" -> <<"s","a","l","_">>
    [] s = "_sal" -> <<"_","s","a","l">>
    [] s = "_do_" -> <<"_","d","o","_">>
    [] s = "_do" -> <<"_","d","o">>
    [] s = "oxygen" -> <<"o","x","y","g","e","n">>
    [] s = "dissolved" -> <<"d","i","s","s","o","l","v","e","d">>
    [] s = "bod" -> <<"b","o","d">>
    [] s = "_bod_" -> <<"_","b","o","d","_">>
    [] s = "bod_" -> <<"b","o","d","_">>
    [] s = "turbidity" -> <<"t","u","r","b","i","d","i","t","y">>
    [] s = "turb_" -> <<"t","u","r","b","_">>
    [] s = "_turb" -> <<"_","t","u","r","b">>
    [] s = "temp" -> <<"t","e","m","p">>
    [] s = "_temp_" -> <<"_","t","e","m","p","_">>
    [] s = "temp_" -> <<"t","e","m","p","_">>

\* What the model file and the preprocessor file of the Copy hold for the
\* importance analysis: booster.get_score(importance_type='gain'), in
\* thousandths, in the order of the dict, and whether get_feature_names_out
\* works.  Neither file is part of the source tree.
Boosters ==
  { [importance_dict |->
       << [key |-> "f0", gain |-> 300], [key |-> "f1", gain |-> 100],
          [key |-> "f2", gain |-> 100], [key |-> "f3", gain |-> 50],
          [key |-> "f4", gain |-> 400], [key |-> "f5", gain |-> 300],
          [key |-> "f6", gain |-> 50], [key |-> "f7", gain |-> 50],
          [key |-> "f8", gain |-> 150], [key |-> "f20", gain |-> 25] >>,
     names_ok |-> TRUE],
    [importance_dict |-> <<>>, names_ok |-> TRUE],
    [importance_dict |-> << [key |-> "f8", gain |-> 200] >>, names_ok |-> TRUE],
    [importance_dict |-> << [key |-> "f0", gain |-> 300], [key |-> "f5", gain |-> 100] >>,
     names_ok |-> FALSE],
    [importance_dict |-> << [key |-> "f4", gain |-> 200], [key |-> "f0", gain |-> 300] >>,
     names_ok |-> TRUE] }

\* Step 2: the importances under the feature names; a key outside the feature
\* map keeps its raw name, and so does every key when the mapping fails
MapImportance(importance_dict, names_ok) ==
  [k \in 1..Len(importance_dict) |->
     [feature |->
        IF names_ok /\ \E i \in 1..Len(feature_names_Copy) :
                         BoosterKey(i - 1) = importance_dict[k].key
        THEN feature_names_Copy[CHOOSE i \in 1..Len(feature_names_Copy) :
                                  BoosterKey(i - 1) = importance_dict[k].key]
        ELSE importance_dict[k].key,
      importance |-> importance_dict[k].gain]]

\* core_params, in dict order
core_params ==
  << [param |-> "pH", keywords |-> <<"ph", "_ph_", "ph_">>],
     [param |-> "Salinity", keywords |-> <<"salinity", "sal_", "_sal">>],
     [param |-> "Dissolved Oxygen", keywords |-> <<"_do_", "_do", "oxygen", "dissolved">>],
     [param |-> "BOD", keywords |-> <<"bod", "_bod_", "bod_">>],
     [param |-> "Turbidity", keywords |-> <<"turbidity", "turb_", "_turb">>],
     [param |-> "Temperature", keywords |-> <<"temp", "_temp_", "temp_">>] >>

\* any(keyword in feature_lower for keyword in keywords)
KeywordHit(feature_name, keywords) ==
  \E k \in 1..Len(keywords) :
    Contains(LowerAll(NameChars(feature_name)), NameChars(keywords[k]))

\* The loop over core_params with its break: the number of the first bucket
\* that has a keyword in the feature name, 0 when none has
MatchedParam(feature_name) ==
  IF \E p \in 1..Len(core_params) : KeywordHit(feature_name, core_params[p].keywords)
  THEN CHOOSE p \in 1..Len(core_params) :
         /\ KeywordHit(feature_name, core_params[p].keywords)
         /\ \A q \in 1..(p - 1) : ~KeywordHit(feature_name, core_params[q].keywords)
  ELSE 0

RECURSIVE Flatten(_)
\* The concatenation of a sequence of sequences
Flatten(seqs) == IF seqs = <<>> THEN <<>> ELSE Head(seqs) \o Flatten(Tail(seqs))

\* The first n elements: seq[:n]
Take(seq, n) == SubSeq(seq, 1, IF Len(seq) < n THEN Len(seq) ELSE n)

\* The gains of the mapped features of bucket p (0: the unmatched features)
BucketFeatures(mapped, p) == SelectSeq(mapped, LAMBDA m : MatchedParam(m.feature) = p)

BucketTotal(mapped, p) ==
  SumSeq([k \in 1..Len(BucketFeatures(mapped, p)) |->
            BucketFeatures(mapped, p)[k].importance])

\* Faults of the gain analysis: booster.get_score
GainFaults == {"none", "get_score"}

\* get_feature_importance_analysis() of the Copy
get_feature_importance_analysis(model, preprocessor, fault) ==
  IF fault = "get_score" THEN [error |-> <<"get_score">>]
  ELSE
    LET mapped == MapImportance(model.importance_dict, preprocessor.names_ok)
        total_matched ==
          SumSeq([p \in 1..Len(core_params) |-> BucketTotal(mapped, p)])
        total_unmatched == BucketTotal(mapped, 0)
        grand_total == total_matched + total_unmatched
        entries ==
          [p \in 1..Len(core_params) |->
             [parameter |-> core_params[p].param,
              total_importance |-> BucketTotal(mapped, p),
              feature_count |-> Len(BucketFeatures(mapped, p)),
              percentage |-> PercentOrZero(BucketTotal(mapped, p), grand_total)]]
        aggregated ==
          SortDescBy(SelectSeq(entries, LAMBDA e : e.total_importance > 0),
                     "total_importance")
        detailed_breakdown ==
          SortDescBy(Flatten([p \in 1..Len(core_params) |->
                       [k \in 1..Len(BucketFeatures(mapped, p)) |->
                          [parameter |-> core_params[p].param,
                           feature |-> BucketFeatures(mapped, p)[k].feature,
                           importance |-> BucketFeatures(mapped, p)[k].importance]]]),
                     "importance")
    IN [aggregated_importance |-> aggregated,
        detailed_breakdown |-> Take(detailed_breakdown, 50),
        unmatched_features |->
          [count |-> Len(BucketFeatures(mapped, 0)),
           total_importance |-> total_unmatched,
           percentage |-> PercentOrZero(total_unmatched, grand_total)]]

\* max(param_importance.items(), key=lambda x: x[1]): the first bucket, in
\* dict order, with the largest total
FirstLargest(totals) ==
  CHOOSE p \in 1..Len(totals) :
    /\ \A q \in 1..Len(totals) : totals[q] <= totals[p]
    /\ \A q \in 1..(p - 1) : totals[q] < totals[p]

\* get_most_contributing_feature() of the Copy: unmatched features are left
\* out of param_importance and of total_importance
get_most_contributing_feature(model, preprocessor, fault) ==
  IF fault = "get_score" THEN [error |-> <<"get_score">>]
  ELSE
    LET mapped == MapImportance(model.importance_dict, preprocessor.names_ok)
        param_importance == [p \in 1..Len(core_params) |-> BucketTotal(mapped, p)]
        total_importance == SumSeq(param_importance)
        most_important_param == FirstLargest(param_importance)
    IN IF total_importance = 0
       THEN [error |-> <<"No feature importance data available">>,
             most_contributing_feature |-> "Unknown",
             importance_score |-> 0,
             percentage |-> 0]
       ELSE [most_contributing_feature |-> core_params[most_important_param].param,
             importance_score |-> param_importance[most_important_param],
             percentage |-> Percent(param_importance[most_important_param],
                                    total_importance)]

\* What a call without an except clause of its own hands its caller: the
\* value, or the exception
Propagate(outcome) ==
  IF outcome.raised THEN [exception |-> outcome.type, msg |-> outcome.msg]
  ELSE [value |-> outcome.value]

----------------------------------------------------------------------------
(* The process *)

NoCall == [op |-> "none"]

NoResult == [none |-> TRUE]

\* A caller's session: a first call, then one repetition of it with the same
\* arguments.  No call changes the process state, so a call after other calls
\* starts from the state a first call starts from.
CanCall(op, args) ==
  \/ last.op = "none"
  \/ last.op = op /\ last.args = args /\ prev = NoResult

\* A caller who has scored a reading may score the same reading once more for
\* another species, or, after a call with the default variant, with another
\* model variant
CanChain(op, args) ==
  /\ last.op = op
  /\ prev = NoResult
  /\ last.after = NoResult
  /\ last.args.reading = args.reading
  /\ last.args.fault = "none"
  /\ args.fault = "none"
  /\ \/ last.args.model_choice = args.model_choice
     \/ last.args.species_name = args.species_name /\ last.args.model_choice = "mooa"

\* A scoring session is a first call and its repetition, or a first call and
\* one call with another species or variant
CanScore(op, args) ==
  \/ last.op = "none"
  \/ last.op = op /\ last.after = NoResult /\ (CanCall(op, args) \/ CanChain(op, args))

\* What the caller keeps of a call with other arguments that went before this
\* one: its species, its variant and its result
Before(op, args) ==
  IF CanCall(op, args) THEN NoResult
  ELSE [species_name |-> last.args.species_name,
        model_choice |-> last.args.model_choice,
        ret |-> last.ret]

\* What the caller remembers of the call before this one
Remember(op, args) ==
  IF last.op = op /\ last.args = args THEN last.ret ELSE NoResult

\* The request threads of src/flask_server.py
Requests == 1..NumRequests

\* src/flask_server.py after import: predictor = None (0; an instance is named
\* by its number in the order of construction), no request has arrived
ServerStart ==
  [predictor |-> 0,
   instances |-> 0,
   pc |-> [r \in Requests |-> "idle"],
   local |-> [r \in Requests |-> 0],
   pred |-> [r \in Requests |-> 0]]

Init ==
  /\ phase = "import"
  /\ importError = ""
  /\ codebase \in {"backend", "copy"}
  /\ models = [v \in Variants |-> [model |-> None, preprocessor |-> None]]
  /\ super_dataset = <<>>
  /\ last = NoCall
  /\ prev = NoResult
  /\ server = ServerStart

\* import backend (src/backend/backend.py): each of the six loads is wrapped
\* in try/except and leaves None behind when it fails; pd.read_csv is not
LoadResources ==
  /\ phase = "import"
  /\ codebase = "backend"
  /\ \E failed \in SUBSET LoadSlots, dataset \in Datasets \cup {<<>>} :
       /\ Cardinality(failed) <= MaxLoadFailures
       /\ models' = [v \in Variants |->
                       [model |-> IF <<v, "model">> \in failed THEN None
                                  ELSE Loaded(v),
                        preprocessor |-> IF <<v, "preprocessor">> \in failed THEN None
                                         ELSE Loaded(v)]]
       /\ IF dataset = <<>>
          THEN /\ phase' = "crashed"
               /\ importError' = "FileNotFoundError: super_dataset.csv"
               /\ super_dataset' = super_dataset
          ELSE /\ phase' = "serving"
               /\ importError' = ""
               /\ super_dataset' = dataset
  /\ UNCHANGED <<codebase, last, prev, server>>

\* import backend (Copy): the MOOA model, its preprocessor and the dataset are
\* loaded without try/except, so any failure ends the import
LoadResources_Copy ==
  /\ phase = "import"
  /\ codebase = "copy"
  /\ \E loads \in BOOLEAN, dataset \in Datasets \cup {<<>>} :
       IF loads /\ dataset # <<>>
       THEN /\ phase' = "serving"
            /\ importError' = ""
            /\ \E booster \in Boosters :
                 models' = [models EXCEPT !["mooa"] =
                              [model |-> [importance_dict |-> booster.importance_dict]
                                         @@ Loaded("mooa"),
                               preprocessor |-> [names_ok |-> booster.names_ok]
                                                @@ Loaded("mooa")]]
            /\ super_dataset' = dataset
       ELSE /\ phase' = "crashed"
            /\ importError' = IF loads THEN "FileNotFoundError: super_dataset.csv"
                              ELSE "XGBoostError: mooa_xgb_model_v4.json"
            /\ UNCHANGED <<models, super_dataset>>
  /\ UNCHANGED <<codebase, last, prev, server>>

\* A caller evaluates categorize_risk(score)
categorize ==
  /\ phase = "serving"
  /\ last.op \in {"none", "categorize_risk"}
  /\ \E score \in {k * (Scale \div 100) : k \in 0..100}
                    \cup {3299, 3301, 3399, 3401, 6599, 6601, 6699, 6701} :
       LET args == [score |-> score]
           ret == [value |-> IF codebase = "backend" THEN categorize_risk(score)
                             ELSE categorize_risk_Copy(score)]
       IN /\ CanCall("categorize_risk", args)
          /\ prev' = Remember("categorize_risk", args)
          /\ last' = [op |-> "categorize_risk", args |-> args, ret |-> ret]
  /\ UNCHANGED <<phase, importError, codebase, models, super_dataset, server>>

\* A caller evaluates calculate_similarity(user_env, lake_env); the result is
\* the float in 1/Scale, and whether the float is exactly 0.0
similarity ==
  /\ phase = "serving"
  /\ last.op \in {"none", "calculate_similarity"}
  /\ \E user_env \in EnvPoints, lake_env \in EnvPoints :
       LET args == [user_env |-> user_env, lake_env |-> lake_env]
           ret == [value |-> calculate_similarity(user_env, lake_env),
                   zero |-> ExpUnderflows(Norm(user_env, lake_env))]
       IN /\ CanCall("calculate_similarity", args)
          /\ prev' = Remember("calculate_similarity", args)
          /\ last' = [op |-> "calculate_similarity", args |-> args, ret |-> ret]
  /\ UNCHANGED <<phase, importError, codebase, models, super_dataset, server>>

\* A caller evaluates check_species_presence(species_name, lake_name) for a
\* lake of the lake table
presence ==
  /\ phase = "serving"
  /\ last.op \in {"none", "check_species_presence"}
  /\ \E species_name \in SpeciesNames, k \in 1..Len(LakeTable) :
       LET args == [species_name |-> species_name, lake_name |-> LakeTable[k].name]
           ret == [value |-> IF codebase = "backend"
                             THEN check_species_presence(species_name, LakeTable[k].name)
                             ELSE check_species_presence_Copy(species_name, LakeTable[k].name)]
       IN /\ CanCall("check_species_presence", args)
          /\ prev' = Remember("check_species_presence", args)
          /\ last' = [op |-> "check_species_presence", args |-> args, ret |-> ret]
  /\ UNCHANGED <<phase, importError, codebase, models, super_dataset, server>>

\* A caller evaluates build_single_input_row(...) of src/backend
buildInputRow ==
  /\ phase = "serving"
  /\ last.op \in {"none", "build_single_input_row"}
  /\ codebase = "backend"
  /\ \E species \in SpeciesNames, r \in Readings :
       LET args == [species |-> species, reading |-> r]
           ret == Propagate(build_single_input_row(species, r.temperature, r.ph,
                                                   r.salinity, r.do, r.bod, r.turbidity))
       IN /\ CanCall("build_single_input_row", args)
          /\ prev' = Remember("build_single_input_row", args)
          /\ last' = [op |-> "build_single_input_row", args |-> args, ret |-> ret]
  /\ UNCHANGED <<phase, importError, codebase, models, super_dataset, server>>

\* A client posts to /api/interpretation/feature-importance of src/backend
featureImportance ==
  /\ phase = "serving"
  /\ last.op \in {"none", "get_feature_importance"}
  /\ codebase = "backend"
  /\ \E species_name \in SpeciesNames, r \in Readings, shap \in ShapTables,
        fault \in PlotFaults :
       LET args == [species_name |-> species_name, reading |-> r, shap |-> shap,
                    fault |-> fault]
           ret == get_feature_importance(species_name, r.temperature, r.ph, r.salinity,
                                         r.do, r.bod, r.turbidity, shap, fault)
       IN /\ CanCall("get_feature_importance", args)
          /\ prev' = Remember("get_feature_importance", args)
          /\ last' = [op |-> "get_feature_importance", args |-> args, ret |-> ret]
  /\ UNCHANGED <<phase, importError, codebase, models, super_dataset, server>>

\* A caller evaluates get_lake_info(lake_name)
lakeInfo ==
  /\ phase = "serving"
  /\ last.op \in {"none", "get_lake_info"}
  /\ \E lake_name \in LakeQueries :
       LET args == [lake_name |-> lake_name]
           ret == [value |-> get_lake_info(lake_name)]
       IN /\ CanCall("get_lake_info", args)
          /\ prev' = Remember("get_lake_info", args)
          /\ last' = [op |-> "get_lake_info", args |-> args, ret |-> ret]
  /\ UNCHANGED <<phase, importError, codebase, models, super_dataset, server>>

\* A caller evaluates normalize_lake_name(lake_name) of src/backend, and
\* normalizes the answer once more when there is one
normalizeLake ==
  /\ phase = "serving"
  /\ last.op \in {"none", "normalize_lake_name"}
  /\ codebase = "backend"
  /\ \E lake_name \in LakeQueries \cup
                       {LAKE_NAME_MAPPING[k].variant : k \in 1..Len(LAKE_NAME_MAPPING)} :
       LET args == [lake_name |-> lake_name]
           once == normalize_lake_name(lake_name)
           ret == [value |-> once,
                   twice |-> IF once = <<>> THEN <<>> ELSE normalize_lake_name(once[1])]
       IN /\ CanCall("normalize_lake_name", args)
          /\ prev' = Remember("normalize_lake_name", args)
          /\ last' = [op |-> "normalize_lake_name", args |-> args, ret |-> ret]
  /\ UNCHANGED <<phase, importError, codebase, models, super_dataset, server>>

\* A caller evaluates get_feature_importance_analysis() of the Copy
importanceAnalysis ==
  /\ phase = "serving"
  /\ last.op \in {"none", "get_feature_importance_analysis"}
  /\ codebase = "copy"
  /\ \E fault \in GainFaults :
       LET args == [fault |-> fault]
           ret == get_feature_importance_analysis(models["mooa"].model,
                                                  models["mooa"].preprocessor, fault)
       IN /\ CanCall("get_feature_importance_analysis", args)
          /\ prev' = Remember("get_feature_importance_analysis", args)
          /\ last' = [op |-> "get_feature_importance_analysis", args |-> args, ret |-> ret]
  /\ UNCHANGED <<phase, importError, codebase, models, super_dataset, server>>

\* A caller evaluates get_most_contributing_feature() of the Copy
mostContributing ==
  /\ phase = "serving"
  /\ last.op \in {"none", "get_most_contributing_feature"}
  /\ codebase = "copy"
  /\ \E fault \in GainFaults :
       LET args == [fault |-> fault]
           ret == get_most_contributing_feature(models["mooa"].model,
                                                models["mooa"].preprocessor, fault)
       IN /\ CanCall("get_most_contributing_feature", args)
          /\ prev' = Remember("get_most_contributing_feature", args)
          /\ last' = [op |-> "get_most_contributing_feature", args |-> args, ret |-> ret]
  /\ UNCHANGED <<phase, importError, codebase, models, super_dataset, server>>

\* Mutation of ScoringFrame: a scoring call unloads the MOOA variant
ScoringFrame_UnloadsVariant ==
  /\ models' = [models EXCEPT !["mooa"] = [model |-> None, preprocessor |-> None]]
  /\ UNCHANGED <<phase, importError, codebase, super_dataset, server>>

\* get_risk_predictions has no global statement and assigns to locals only:
\* the module globals stay as the import left them
ScoringFrame ==
  UNCHANGED <<phase, importError, codebase, models, super_dataset, server>>

\* A caller evaluates get_risk_predictions(...) of src/backend
scoreRisk ==
  /\ phase = "serving"
  /\ last.op = "none" \/ (last.op = "get_risk_predictions" /\ last.after = NoResult /\ prev = NoResult)
  /\ codebase = "backend"
  /\ \E species_name \in SpeciesNames, r \in Readings,
        model_choice \in ModelChoices, fault \in Faults :
       LET args == [species_name |-> species_name, reading |-> r,
                    model_choice |-> model_choice, fault |-> fault]
           ret == get_risk_predictions(species_name, r.temperature, r.ph, r.salinity,
                                       r.do, r.bod, r.turbidity, model_choice, fault)
       IN /\ CanScore("get_risk_predictions", args)
          /\ prev' = Remember("get_risk_predictions", args)
          /\ last' = [op |-> "get_risk_predictions", args |-> args, ret |-> ret,
                       steps |-> ScoringSteps("backend", species_name, model_choice, fault),
                       after |-> Before("get_risk_predictions", args)]
  /\ ScoringFrame

\* A caller evaluates get_risk_predictions(...) of the Copy
scoreRisk_Copy ==
  /\ phase = "serving"
  /\ last.op = "none" \/ (last.op = "get_risk_predictions" /\ last.after = NoResult /\ prev = NoResult)
  /\ codebase = "copy"
  /\ \E species_name \in SpeciesNames, r \in Readings, fault \in Faults :
       LET args == [species_name |-> species_name, reading |-> r,
                    model_choice |-> "mooa", fault |-> fault]
           ret == get_risk_predictions_Copy(species_name, r.temperature, r.ph,
                                            r.salinity, r.do, r.bod, r.turbidity, fault)
       IN /\ CanScore("get_risk_predictions", args)
          /\ prev' = Remember("get_risk_predictions", args)
          /\ last' = [op |-> "get_risk_predictions", args |-> args, ret |-> ret,
                       steps |-> ScoringSteps("copy", species_name, "mooa", fault),
                       after |-> Before("get_risk_predictions", args)]
  /\ ScoringFrame

----------------------------------------------------------------------------
(* src/flask_server.py: get_predictor() on concurrent request threads *)

\* A request arrives at an endpoint, whose handler calls get_predictor()
Receive(r) ==
  /\ server.pc[r] = "idle"
  /\ server' = [server EXCEPT !.pc[r] = "test"]
  /\ UNCHANGED <<phase, importError, codebase, models, super_dataset, last, prev>>

\* if predictor is None:
TestPredictor(r) ==
  /\ server.pc[r] = "test"
  /\ server' = [server EXCEPT !.pc[r] = IF server.predictor = 0 THEN "construct"
                                        ELSE "return"]
  /\ UNCHANGED <<phase, importError, codebase, models, super_dataset, last, prev>>

\* InvasiveSpeciesPredictor(): the three loads; a load that fails raises a
\* RuntimeError, which the handler answers with status 500
Construct(r) ==
  /\ server.pc[r] = "construct"
  /\ \E loads \in BOOLEAN :
       server' = IF loads
                 THEN [server EXCEPT !.instances = @ + 1,
                                     !.local[r] = server.instances + 1,
                                     !.pc[r] = "store"]
                 ELSE [server EXCEPT !.pc[r] = "failed"]
  /\ UNCHANGED <<phase, importError, codebase, models, super_dataset, last, prev>>

\* predictor = <the new instance>
StorePredictor(r) ==
  /\ server.pc[r] = "store"
  /\ server' = [server EXCEPT !.predictor = server.local[r], !.pc[r] = "return"]
  /\ UNCHANGED <<phase, importError, codebase, models, super_dataset, last, prev>>

\* return predictor: the handler goes on with the instance the global holds
ReturnPredictor(r) ==
  /\ server.pc[r] = "return"
  /\ server' = [server EXCEPT !.pred[r] = server.predictor, !.pc[r] = "done"]
  /\ UNCHANGED <<phase, importError, codebase, models, super_dataset, last, prev>>

\* The steps of the request threads, in any interleaving
NextServer ==
  \E r \in Requests :
    \/ Receive(r)
    \/ TestPredictor(r)
    \/ Construct(r)
    \/ StorePredictor(r)
    \/ ReturnPredictor(r)

\* The server process of src/flask_server.py
SpecServer == Init /\ [][NextServer]_vars

Next ==
  \/ LoadResources
  \/ LoadResources_Copy
  \/ categorize
  \/ similarity
  \/ presence
  \/ lakeInfo
  \/ normalizeLake
  \/ buildInputRow
  \/ featureImportance
  \/ importanceAnalysis
  \/ mostContributing
  \/ scoreRisk
  \/ scoreRisk_Copy

Spec == Init /\ [][Next]_vars

----------------------------------------------------------------------------
(* Properties *)

\* The last call is a scoring call
IsScoring == last.op = "get_risk_predictions"

\* The last call is a scoring call that returned predictions
Succeeded == IsScoring /\ "predictions" \in DOMAIN last.ret

\* The user reading of the last scoring call, in the order of user_env
UserEnv ==
  LET r == last.args.reading
  IN <<r.ph, r.salinity, r.do, r.bod, r.turbidity, r.temperature>>

\* The row of the lake table with a given name, and its row number
LakeRow(name) == CHOOSE i \in 1..Len(LakeTable) : LakeTable[i].name = name

\* The species of the last scoring call has a row in the dataset
SpeciesKnown == \E i \in 1..Len(super_dataset) : super_dataset[i].species = last.args.species_name

\* The model variant the last scoring call selects
ChosenVariant ==
  IF codebase = "copy" THEN "mooa"
  ELSE IF last.args.model_choice \in {"baseline", "ooa"} THEN last.args.model_choice
  ELSE "mooa"

\* Model and preprocessor of the chosen variant both loaded
VariantAvailable ==
  models[ChosenVariant].model.loaded /\ models[ChosenVariant].preprocessor.loaded

SpeciesNotFoundMessage == <<"Species '", last.args.species_name, "' not found in dataset.">>

ModelUnavailableMessage ==
  <<"Model or preprocessor not available for choice: ", last.args.model_choice>>

C2_TestBoundaries ==
  (last.op = "categorize_risk" /\ codebase = "backend") =>
    LET score == last.args.score
        level == last.ret.value
    IN /\ score = 3300 => level = "Low"
       /\ score = 3400 => level = "Medium"
       /\ score = 6600 => level = "Medium"
       /\ score = 6700 => level = "High"

\* C3: in every returned record adjusted_score is raw_score times the
\* similarity of the record's own lake, and so is at most raw_score.
C3_AdjustedIsRawTimesSimilarity ==
  Succeeded =>
    \A i \in 1..Len(last.ret.predictions) :
      LET p == last.ret.predictions[i]
      IN /\ p.similarity =
              calculate_similarity(UserEnv, LakeEnv(LakeTable[LakeRow(p.lake_name)]))
         /\ p.adjusted_score = Mul(p.raw_score, p.similarity)
         /\ p.adjusted_score <= p.raw_score
         /\ p.similarity <= Scale

C3_Witness ==
  /\ Succeeded
  /\ \E i \in 1..Len(last.ret.predictions) :
       LET p == last.ret.predictions[i]
       IN 0 < p.adjusted_score /\ p.adjusted_score < p.raw_score

\* C4: a successful result holds exactly one record per lake of the lake table
\* (12 in src/backend, 13 in the Copy), none missing, none twice, and every
\* risk_level is Low, Medium or High.
C4_OneRecordPerLake ==
  Succeeded =>
    LET ps == last.ret.predictions
    IN /\ Len(ps) = (IF codebase = "backend" THEN 12 ELSE 13)
       /\ Len(ps) = Len(LakeTable)
       /\ \A k \in 1..Len(LakeTable) :
            Cardinality({i \in 1..Len(ps) : ps[i].lake_name = LakeTable[k].name}) = 1
       /\ \A i \in 1..Len(ps) : ps[i].risk_level \in {"Low", "Medium", "High"}

C4_Witness ==
  /\ Succeeded
  /\ codebase = "backend"
  /\ Len(last.ret.predictions) = 12
  /\ \E i, j \in 1..Len(last.ret.predictions) :
       /\ i # j
       /\ last.ret.predictions[i].adjusted_score = last.ret.predictions[j].adjusted_score
  /\ \E i \in 1..Len(last.ret.predictions) : last.ret.predictions[i].risk_level = "High"

\* C5: the returned predictions are sorted by adjusted_score, non-increasing.
C5_SortedDescending ==
  Succeeded =>
    \A i \in 1..(Len(last.ret.predictions) - 1) :
      last.ret.predictions[i].adjusted_score >= last.ret.predictions[i + 1].adjusted_score

C5_Witness ==
  /\ Succeeded
  /\ last.ret.predictions[1].adjusted_score
       > last.ret.predictions[Len(last.ret.predictions)].adjusted_score

\* C6: a scoring call repeated with the same arguments returns the same result,
\* record for record, and records with equal adjusted_score stand in the order
\* of their rows in the lake table.
C6_RepeatableWithStableTies ==
  /\ (IsScoring /\ prev # NoResult) => prev = last.ret
  /\ Succeeded =>
       \A i \in 1..(Len(last.ret.predictions) - 1) :
         LET p == last.ret.predictions[i]
             q == last.ret.predictions[i + 1]
         IN p.adjusted_score = q.adjusted_score => LakeRow(p.lake_name) < LakeRow(q.lake_name)

C6_Witness ==
  /\ Succeeded
  /\ prev = last.ret
  /\ \E i \in 1..(Len(last.ret.predictions) - 1) :
       /\ last.ret.predictions[i].adjusted_score = last.ret.predictions[i + 1].adjusted_score
       /\ last.ret.predictions[i].adjusted_score > 0

\* C7: for a known species and an available model (and no library failure
\* during the call) the result holds the full prediction list and no error,
\* and holds the warning exactly when every lake's similarity is < 0.05; also
\* for the reading temperature 50, pH 14, turbidity 500.
C7_WarningIffAllDissimilar ==
  (IsScoring /\ SpeciesKnown /\ VariantAvailable /\ last.args.fault = "none") =>
    /\ "predictions" \in DOMAIN last.ret
    /\ "error" \notin DOMAIN last.ret
    /\ Len(last.ret.predictions) = Len(LakeTable)
    /\ ("warning" \in DOMAIN last.ret) <=>
         (\A k \in 1..Len(LakeTable) :
            calculate_similarity(UserEnv, LakeEnv(LakeTable[k])) < 500)

C7_Witness ==
  /\ Succeeded
  /\ last.args.reading = ReadingAt(2)
  /\ "warning" \in DOMAIN last.ret
  /\ Len(last.ret.predictions) = Len(LakeTable)

C7_WitnessNoWarning ==
  /\ Succeeded
  /\ "warning" \notin DOMAIN last.ret
  /\ \E i \in 1..Len(last.ret.predictions) : last.ret.predictions[i].similarity < 500

\* C8 as claimed: for an unknown species, every reading and every model variant,
\* the result is the SpeciesNotFound error and nothing else.
C8_UnknownSpeciesAlwaysSpeciesNotFound ==
  (IsScoring /\ ~SpeciesKnown) => last.ret = [error |-> SpeciesNotFoundMessage]

\* C8 amended: for an unknown species the result holds the error and nothing
\* else; the error is SpeciesNotFound when the requested variant's model and
\* preprocessor both loaded, and the model-unavailable error when they did not.
C8_UnknownSpeciesIsAnError ==
  (IsScoring /\ ~SpeciesKnown) =>
    /\ DOMAIN last.ret = {"error"}
    /\ VariantAvailable => last.ret.error = SpeciesNotFoundMessage
    /\ ~VariantAvailable => last.ret.error = ModelUnavailableMessage

C8_Witness ==
  /\ IsScoring
  /\ last.args.species_name = "Invalid Species Name"
  /\ VariantAvailable
  /\ last.ret = [error |-> <<"Species '", "Invalid Species Name", "' not found in dataset.">>]

\* C9: a scoring call never raises; its result holds exactly one of "error" and
\* "predictions"; a call that fails at any step returns the "error" key alone.
C9_ErrorsAreReturned ==
  IsScoring =>
    /\ "exception" \notin DOMAIN last.ret
    /\ ("error" \in DOMAIN last.ret) # ("predictions" \in DOMAIN last.ret)
    /\ "error" \in DOMAIN last.ret => DOMAIN last.ret = {"error"}
    /\ (~SpeciesKnown \/ ~VariantAvailable \/ last.args.fault # "none") =>
         DOMAIN last.ret = {"error"}

C9_Witness ==
  /\ IsScoring
  /\ SpeciesKnown
  /\ VariantAvailable
  /\ last.args.fault = "transform"
  /\ last.ret = [error |-> <<"preprocessor.transform">>]

\* C10: a model or preprocessor that fails to load does not end the import of
\* src/backend; a call that requests that variant returns an error; a call
\* that requests a variant whose model and preprocessor loaded returns
\* predictions all the same.
C10_LoadFailureDegradesOneVariant ==
  codebase = "backend" =>
    /\ phase = "crashed" => importError = "FileNotFoundError: super_dataset.csv"
    /\ (phase # "import" /\ importError = "") => phase = "serving"
    /\ (IsScoring /\ ~VariantAvailable) => DOMAIN last.ret = {"error"}
    /\ (IsScoring /\ VariantAvailable /\ SpeciesKnown /\ last.args.fault = "none") =>
         "predictions" \in DOMAIN last.ret

C10_Witness ==
  /\ codebase = "backend"
  /\ phase = "serving"
  /\ ~(models["mooa"].model.loaded /\ models["mooa"].preprocessor.loaded)
  /\ IsScoring
  /\ last.args.model_choice = "baseline"
  /\ "predictions" \in DOMAIN last.ret

C10_WitnessDegraded ==
  /\ codebase = "backend"
  /\ IsScoring
  /\ last.args.model_choice = "ooa"
  /\ ~models["ooa"].preprocessor.loaded
  /\ last.ret = [error |-> <<"Model or preprocessor not available for choice: ", "ooa">>]

\* The last call is a call of calculate_similarity
IsSimilarity == last.op = "calculate_similarity"

\* C11: for every reading r, calculate_similarity(r, r) is exactly 1.0.
C11_SelfSimilarityIsOne ==
  (IsSimilarity /\ last.args.user_env = last.args.lake_env) =>
    /\ last.ret.value = Scale
    /\ ~last.ret.zero

C11_Witness ==
  /\ IsSimilarity
  /\ last.args.user_env = <<14000, 10000, 0, 20000, 500000, 50000>>
  /\ last.args.lake_env = last.args.user_env
  /\ last.ret.value = Scale

\* C12: similarity decays monotonically with the Euclidean distance: for all
\* r1, r2, r3, if distance(r1, r3) >= distance(r1, r2) then
\* similarity(r1, r3) <= similarity(r1, r2).
C12_MonotoneDecay ==
  IsSimilarity =>
    \A r3 \in EnvPoints :
      Norm(last.args.user_env, r3) >= Norm(last.args.user_env, last.args.lake_env) =>
        /\ calculate_similarity(last.args.user_env, r3) <= last.ret.value
        /\ last.ret.zero => ExpUnderflows(Norm(last.args.user_env, r3))

C12_Witness ==
  /\ IsSimilarity
  /\ 0 < last.ret.value
  /\ last.ret.value < Scale
  /\ \E r3 \in EnvPoints :
       /\ Norm(last.args.user_env, r3) > Norm(last.args.user_env, last.args.lake_env)
       /\ 0 < calculate_similarity(last.args.user_env, r3)
       /\ calculate_similarity(last.args.user_env, r3) < last.ret.value

\* C13 as claimed: for all finite readings the similarity is finite, strictly
\* greater than 0 and at most 1.
C13_SimilarityIsPositive ==
  IsSimilarity =>
    /\ ~last.ret.zero
    /\ 0 <= last.ret.value
    /\ last.ret.value <= Scale

\* C13 amended: for all finite readings the similarity is finite, at least 0
\* and at most 1; it is exactly 0.0 when the distance is 7451.4 or more (the
\* float64 exponential underflows), and strictly greater than 0 otherwise, in
\* particular for every pair of readings inside the expected ranges.
C13_SimilarityInUnitInterval ==
  IsSimilarity =>
    /\ 0 <= last.ret.value
    /\ last.ret.value <= Scale
    /\ last.ret.zero <=> Norm(last.args.user_env, last.args.lake_env) >= 74514
    /\ last.ret.zero => last.ret.value = 0
    /\ (InExpectedRanges(last.args.user_env) /\ InExpectedRanges(last.args.lake_env)) =>
         ~last.ret.zero

C13_Witness ==
  /\ IsSimilarity
  /\ InExpectedRanges(last.args.user_env)
  /\ last.args.lake_env = <<14000, 10000, 0, 20000, 500000, 50000>>
  /\ last.ret.value = 0
  /\ ~last.ret.zero

C13_WitnessUnderflow ==
  /\ IsSimilarity
  /\ last.args.user_env = <<7500, 500, 6000, 2000, 8000000, 27000>>
  /\ last.ret.zero

\* Some dataset record has the species and a waterbody_name that contains the
\* lake name, underscores replaced by spaces, compared without case
PresenceRecorded(species_name, lake_name) ==
  \E i \in 1..Len(super_dataset) :
    /\ super_dataset[i].species = species_name
    /\ super_dataset[i].waterbody_name # NA
    /\ Contains(LowerAll(Chars(super_dataset[i].waterbody_name)),
                LowerAll(Replace(Chars(lake_name), "_", " ")))

\* C14: check_species_presence returns "Yes" exactly when a dataset record has
\* the species and a waterbody_name containing the lake name, and "No" in every
\* other case, never "Unknown"; so the presence field of every record of a
\* scoring result is "Yes" or "No".
C14_PresenceIsYesOrNo ==
  /\ last.op = "check_species_presence" =>
        last.ret.value = (IF PresenceRecorded(last.args.species_name, last.args.lake_name)
                          THEN "Yes" ELSE "No")
  /\ Succeeded =>
        \A i \in 1..Len(last.ret.predictions) :
          last.ret.predictions[i].presence \in {"Yes", "No"}

\* The derived columns of a feature row are the functions of its other columns
\* that the Feature Builder defines
DerivedFieldsHold(row) ==
  /\ {"wb_ph_min", "wb_ph_max", "wb_temp_min", "wb_temp_max", "temp_pref_min",
      "temp_pref_max", "input_temp", "input_ph", "fish_ph_pref", "ph_difference",
      "wb_ph_range", "wb_temp_range", "temp_pref_range", "temp_in_pref_range"}
       \subseteq DOMAIN row
  /\ row.fish_ph_pref = (row.wb_ph_min + row.wb_ph_max) \div 2
  /\ row.ph_difference = Abs(row.fish_ph_pref - row.input_ph)
  /\ row.wb_ph_range = row.wb_ph_max - row.wb_ph_min
  /\ row.wb_temp_range = row.wb_temp_max - row.wb_temp_min
  /\ row.temp_pref_range = row.temp_pref_max - row.temp_pref_min
  /\ row.temp_in_pref_range \in {0, 1}
  /\ row.temp_in_pref_range = 1 <=>
       (row.temp_pref_min <= row.input_temp /\ row.input_temp <= row.temp_pref_max)

\* The last call is a successful call of build_single_input_row
BuiltInputRow == last.op = "build_single_input_row" /\ "value" \in DOMAIN last.ret

\* The last call is a post to the feature-importance endpoint
IsImportanceEndpoint == last.op = "get_feature_importance"

\* C15: every feature vector of the Feature Builder (the per-lake rows of
\* get_risk_predictions, the row of build_single_input_row, the row of the
\* feature-importance endpoint) has the six derived columns as defined, with
\* temp_in_pref_range inclusive at both bounds, and building twice from the same
\* inputs gives the same vector.
C15_DerivedFeatures ==
  /\ (IsScoring /\ SpeciesKnown) =>
        \A k \in 1..Len(LakeTable) :
          LET r == last.args.reading
          IN DerivedFieldsHold(EngineerFeatures(
               BuildRow(get_species_data(last.args.species_name).value, LakeTable[k],
                        r.temperature, r.ph, r.salinity, r.do, r.bod, r.turbidity)))
  /\ (IsImportanceEndpoint /\ SpeciesKnown) =>
        LET r == last.args.reading
        IN DerivedFieldsHold(EngineerFeatures(
             BuildImportanceRow(get_species_data(last.args.species_name).value,
                                r.temperature, r.ph, r.salinity, r.do, r.bod, r.turbidity)))
  /\ BuiltInputRow => DerivedFieldsHold(last.ret.value)
  /\ (last.op = "build_single_input_row" /\ prev # NoResult) => prev = last.ret

\* C16: the result of an importance analysis on the synthetic baseline carries
\* a marker that the baseline is approximate: a field of the response, or of
\* its data, beside the ones every importance result has.
C16_ApproximateBaselineIsMarked ==
  (IsImportanceEndpoint /\ last.ret.success) =>
    \/ DOMAIN last.ret # {"success", "data", "status"}
    \/ DOMAIN last.ret.data # {"aggregated_importance", "plot_base64", "plot_format"}
    \/ \E k \in 1..Len(last.ret.data.aggregated_importance) :
         DOMAIN last.ret.data.aggregated_importance[k]
           # {"parameter", "total_importance", "feature_count", "features", "percentage"}

\* The last call is a call of the gain analysis of the Copy that returned its
\* report
IsImportanceAnalysis ==
  last.op = "get_feature_importance_analysis" /\ "error" \notin DOMAIN last.ret

\* The importances the last gain analysis worked on, under their feature names
AnalysedFeatures ==
  MapImportance(models["mooa"].model.importance_dict, models["mooa"].preprocessor.names_ok)

\* C17: importance aggregation partitions the features: each feature with an
\* importance goes to the first of the six buckets (pH, Salinity, Dissolved
\* Oxygen, BOD, Turbidity, Temperature) that has a keyword in its lower-cased
\* name, or to the unmatched group; none is counted twice and none is dropped,
\* so the bucket totals plus the unmatched total are the sum of all
\* importances, and the counts add up to the number of features.
C17_AggregationPartitionsFeatures ==
  /\ IsImportanceAnalysis =>
       LET agg == last.ret.aggregated_importance
           unmatched == last.ret.unmatched_features
       IN /\ \A k \in 1..Len(agg) :
               \E p \in 1..Len(core_params) :
                 /\ agg[k].parameter = core_params[p].param
                 /\ agg[k].total_importance = BucketTotal(AnalysedFeatures, p)
                 /\ agg[k].feature_count = Len(BucketFeatures(AnalysedFeatures, p))
          /\ \A j, k \in 1..Len(agg) : agg[j].parameter = agg[k].parameter => j = k
          /\ SumSeq([k \in 1..Len(agg) |-> agg[k].total_importance])
               + unmatched.total_importance
               = SumSeq([k \in 1..Len(AnalysedFeatures) |-> AnalysedFeatures[k].importance])
          /\ SumSeq([k \in 1..Len(agg) |-> agg[k].feature_count]) + unmatched.count
               = Len(AnalysedFeatures)
  /\ (IsImportanceEndpoint /\ last.ret.success) =>
       LET agg == last.ret.data.aggregated_importance
       IN /\ SumSeq([k \in 1..Len(agg) |-> agg[k].total_importance])
               = SumSeq([k \in 1..Len(get_feature_names_out) |->
                          ShapValue(last.args.shap, get_feature_names_out[k])])
          /\ SumSeq([k \in 1..Len(agg) |-> agg[k].feature_count])
               = Len(get_feature_names_out)

C18_WitnessPlots ==
  /\ IsImportanceEndpoint
  /\ last.ret.success
  /\ \E k \in 1..Len(last.ret.data.aggregated_importance) :
       /\ last.ret.data.aggregated_importance[k].total_importance > 0
       /\ last.ret.data.aggregated_importance[k].percentage < 10000

\* The last call is a call of get_most_contributing_feature of the Copy
IsMostContributing == last.op = "get_most_contributing_feature"

\* The sum of all importances the booster of the Copy reports
GrandTotal ==
  SumSeq([k \in 1..Len(AnalysedFeatures) |-> AnalysedFeatures[k].importance])

\* The sum of the importances of the features that fall into a bucket
MatchedTotal ==
  SumSeq([p \in 1..Len(core_params) |-> BucketTotal(AnalysedFeatures, p)])

\* The gain report and the SHAP report at a grand total of 0: no error, and 0%
\* for every group reported
ZeroTotalReports ==
  /\ (last.op = "get_feature_importance_analysis" /\ last.args.fault = "none"
        /\ GrandTotal = 0) =>
        /\ "error" \notin DOMAIN last.ret
        /\ \A k \in 1..Len(last.ret.aggregated_importance) :
             last.ret.aggregated_importance[k].percentage = 0
        /\ last.ret.unmatched_features.percentage = 0
  /\ (IsImportanceEndpoint /\ last.args.fault = "none"
        /\ \A f \in DOMAIN last.args.shap : last.args.shap[f] = 0) =>
        /\ last.ret.success = (SpeciesKnown /\ models["mooa"].model.loaded
                                /\ models["mooa"].preprocessor.loaded)
        /\ last.ret.success =>
             \A k \in 1..Len(last.ret.data.aggregated_importance) :
               last.ret.data.aggregated_importance[k].percentage = 0

\* C19 as stated: when the grand total is 0, each of the three importance
\* operations completes without a division by zero and without an error
\* result, and reports 0%.
C19_ZeroTotalWithoutError ==
  /\ ZeroTotalReports
  /\ (IsMostContributing /\ last.args.fault = "none" /\ GrandTotal = 0) =>
        /\ "error" \notin DOMAIN last.ret
        /\ last.ret.percentage = 0

\* C19 as the code has it: at a total of 0 no operation divides by zero; the
\* gain report and the SHAP report carry no error and 0% throughout, and
\* get_most_contributing_feature, whose total covers the matched features
\* only, returns the error "No feature importance data available" with the
\* feature "Unknown", score 0.0 and percentage 0.0.
C19_ZeroTotalIsNoDivision ==
  /\ ZeroTotalReports
  /\ (IsMostContributing /\ last.args.fault = "none" /\ MatchedTotal = 0) =>
        last.ret = [error |-> <<"No feature importance data available">>,
                    most_contributing_feature |-> "Unknown",
                    importance_score |-> 0,
                    percentage |-> 0]
  /\ (IsMostContributing /\ last.args.fault = "none" /\ MatchedTotal > 0) =>
        "error" \notin DOMAIN last.ret

\* get_most_contributing_feature has been called on a booster that reports no
\* importance at all
C19_Witness ==
  /\ IsMostContributing
  /\ last.args.fault = "none"
  /\ AnalysedFeatures = <<>>

\* The gain report has been made at a grand total of 0
C19_WitnessAnalysis ==
  /\ IsImportanceAnalysis
  /\ GrandTotal = 0
  /\ last.ret.unmatched_features.percentage = 0

\* The SHAP report has been made with every SHAP value 0
C19_WitnessPlots ==
  /\ IsImportanceEndpoint
  /\ last.ret.success
  /\ \A k \in 1..Len(last.ret.data.aggregated_importance) :
       last.ret.data.aggregated_importance[k].total_importance = 0

\* The gain report of the Copy for the loaded booster
GainReport ==
  get_feature_importance_analysis(models["mooa"].model, models["mooa"].preprocessor, "none")

\* C20: the aggregated importance list is sorted by bucket total, largest
\* first, and get_most_contributing_feature returns exactly the head entry of
\* that list: the same parameter, the same total and the same percentage.
C20_MostContributingIsHead ==
  /\ IsImportanceAnalysis =>
       \A k \in 1..(Len(last.ret.aggregated_importance) - 1) :
         last.ret.aggregated_importance[k].total_importance
           >= last.ret.aggregated_importance[k + 1].total_importance
  /\ (IsMostContributing /\ last.args.fault = "none"
        /\ GainReport.aggregated_importance # <<>>) =>
       LET head == Head(GainReport.aggregated_importance)
       IN /\ "error" \notin DOMAIN last.ret
          /\ last.ret.most_contributing_feature = head.parameter
          /\ last.ret.importance_score = head.total_importance
          /\ last.ret.percentage = head.percentage

C21_WitnessFound ==
  /\ last.op = "get_lake_info"
  /\ last.ret.value # PyNone
  /\ last.ret.value.region = "V"

\* C22: in the backend module that src/backend/test_backend.py imports,
\* get_lake_info("Laguna_de_Bay") returns the record of Laguna de Bay, not None.
C22_TestLakeInfo ==
  (codebase = "backend" /\ last.op = "get_lake_info"
     /\ last.args.lake_name = "Laguna_de_Bay") =>
    /\ last.ret.value # PyNone
    /\ last.ret.value.name \in {"Laguna de Bay", "Laguna_de_Bay"}
    /\ last.ret.value.environmental_parameters.pH = 9120

\* C23: normalize_lake_name maps every variant of LAKE_NAME_MAPPING to one of
\* the 12 names of LUZON_LAKES, which are exactly the names of the lake table;
\* it maps every canonical name to itself, so that normalizing twice is
\* normalizing once; and it returns None for a name outside the mapping.
C23_NormalizeLakeName ==
  last.op = "normalize_lake_name" =>
    LET lake_name == last.args.lake_name
        variants == {LAKE_NAME_MAPPING[k].variant : k \in 1..Len(LAKE_NAME_MAPPING)}
        canonical == {LUZON_LAKES[k] : k \in 1..Len(LUZON_LAKES)}
    IN /\ Len(LUZON_LAKES) = 12
       /\ Cardinality(canonical) = 12
       /\ canonical = {luzon_lakes[k].name : k \in 1..Len(luzon_lakes)}
       /\ lake_name \in variants =>
            /\ Len(last.ret.value) = 1
            /\ last.ret.value[1] \in canonical
            /\ last.ret.twice = last.ret.value
       /\ lake_name \in canonical => last.ret.value = <<lake_name>>
       /\ lake_name \notin variants => last.ret.value = <<>>

\* A variant that is not a canonical name has been normalized
C23_Witness ==
  /\ last.op = "normalize_lake_name"
  /\ last.args.lake_name = "Taal Freshwater Pond"
  /\ last.ret.value = <<"Lake Taal">>
  /\ last.ret.twice = <<"Lake Taal">>

\* A name outside the mapping has been normalized to None
C23_WitnessUnknown ==
  /\ last.op = "normalize_lake_name"
  /\ last.args.lake_name = "Laguna_de_Bay"
  /\ last.ret.value = <<>>

\* C24: the predictor is constructed once for the lifetime of the process:
\* under every interleaving of concurrent requests that call get_predictor,
\* InvasiveSpeciesPredictor() is constructed at most once, and all requests
\* use that same instance.
C24_PredictorConstructedOnce ==
  /\ server.instances <= 1
  /\ \A r1, r2 \in Requests :
       (server.pc[r1] = "done" /\ server.pc[r2] = "done") =>
         server.pred[r1] = server.pred[r2]

C26_StepsInOrder ==
  IsScoring =>
    LET order == <<"validate", "build", "predict", "similarity", "adjust", "rank", "flag">>
        steps == SelectSeq(last.steps, LAMBDA x : x \in Range(order))
    IN /\ steps = SubSeq(order, 1, Len(steps))
       /\ ("predictions" \in DOMAIN last.ret) = (steps = order)
       /\ ("error" \in DOMAIN last.ret) = (steps # order)
       /\ (~SpeciesKnown /\ "validate" \in Range(last.steps)) =>
            /\ last.steps[Len(last.steps)] = "validate"
            /\ DOMAIN last.ret = {"error"}
            /\ Range(last.steps) \cap
                 {"build", "predict", "similarity", "adjust", "records", "rank", "flag"} = {}

\* A scoring call has failed in the validation of the species, with the chosen
\* variant loaded
C26_Witness ==
  /\ IsScoring
  /\ ~SpeciesKnown
  /\ super_dataset # <<>>
  /\ last.steps[Len(last.steps)] = "validate"
  /\ "error" \in DOMAIN last.ret

\* A scoring call has run all its steps
C26_WitnessComplete ==
  /\ Succeeded
  /\ Len(last.steps) >= 8
  /\ last.steps[Len(last.steps)] = "flag"

\* C27: whenever a get_risk_predictions result carries the low-confidence
\* warning, every record in it has risk_level "Low": with raw probabilities in
\* [0, 1] and every similarity below 0.05, every adjusted_score is below 0.05,
\* and so below the threshold of "Medium".
C27_WarningImpliesAllLow ==
  (Succeeded /\ "warning" \in DOMAIN last.ret) =>
    \A i \in 1..Len(last.ret.predictions) :
      LET p == last.ret.predictions[i]
      IN /\ 0 <= p.raw_score /\ p.raw_score <= Scale
         /\ p.similarity < WarningThreshold
         /\ p.adjusted_score < WarningThreshold
         /\ p.risk_level = "Low"

\* A result carries the warning although the model gave some lake a raw score
\* in the "High" range
C27_Witness ==
  /\ Succeeded
  /\ "warning" \in DOMAIN last.ret
  /\ \E i \in 1..Len(last.ret.predictions) :
       /\ last.ret.predictions[i].raw_score >= HighThreshold_Copy
       /\ last.ret.predictions[i].risk_level = "Low"

\* C28: similarity weighting never raises a lake's risk category: with Low <
\* Medium < High, the risk_level of a record (from its adjusted_score) is never
\* above the category categorize_risk gives its raw_score, as categorize_risk
\* never falls when the score grows and adjusted_score <= raw_score.
C28_WeightingNeverRaisesCategory ==
  Succeeded =>
    \A i \in 1..Len(last.ret.predictions) :
      LET p == last.ret.predictions[i]
          level == [c \in {"Low", "Medium", "High"} |->
                      IF c = "Low" THEN 1 ELSE IF c = "Medium" THEN 2 ELSE 3]
          raw_level == IF codebase = "backend" THEN categorize_risk(p.raw_score)
                       ELSE categorize_risk_Copy(p.raw_score)
      IN /\ p.adjusted_score <= p.raw_score
         /\ level[p.risk_level] <= level[raw_level]
         /\ \A s, t \in {p.adjusted_score, p.raw_score, LowThreshold, HighThreshold} :
              s <= t => level[categorize_risk(s)] <= level[categorize_risk(t)]

\* Some lake's category has come out lower than that of its raw score, and
\* another lake's the same
C28_Witness ==
  /\ Succeeded
  /\ \E i, j \in 1..Len(last.ret.predictions) :
       /\ last.ret.predictions[i].raw_score >= HighThreshold_Copy
       /\ last.ret.predictions[i].risk_level = "Medium"
       /\ last.ret.predictions[j].raw_score >= HighThreshold_Copy
       /\ last.ret.predictions[j].risk_level = "High"

\* C29: the similarity of each lake and the presence of the warning depend on
\* the user reading and the lake baselines only: two successful
\* get_risk_predictions calls with the same reading, for different known
\* species or with different available model variants, report the same
\* similarity for every lake and agree on whether the warning is attached.
C29_SimilarityIndependentOfSpeciesAndModel ==
  (Succeeded /\ last.after # NoResult /\ "predictions" \in DOMAIN last.after.ret) =>
    /\ \A i \in 1..Len(last.ret.predictions) :
         \E j \in 1..Len(last.after.ret.predictions) :
           /\ last.after.ret.predictions[j].lake_name = last.ret.predictions[i].lake_name
           /\ last.after.ret.predictions[j].similarity = last.ret.predictions[i].similarity
    /\ ("warning" \in DOMAIN last.ret) = ("warning" \in DOMAIN last.after.ret)

\* Two calls with one reading for two known species have succeeded with
\* different rankings
C29_Witness ==
  /\ Succeeded
  /\ last.after # NoResult
  /\ "predictions" \in DOMAIN last.after.ret
  /\ last.after.species_name # last.args.species_name
  /\ last.after.ret.predictions[1].lake_name # last.ret.predictions[1].lake_name

\* Two calls with one reading and two model variants have succeeded with
\* different raw scores, both with the warning
C29_WitnessVariants ==
  /\ Succeeded
  /\ last.after # NoResult
  /\ "predictions" \in DOMAIN last.after.ret
  /\ last.after.model_choice # last.args.model_choice
  /\ "warning" \in DOMAIN last.ret
  /\ \E i \in 1..Len(last.ret.predictions) :
       last.ret.predictions[i].raw_score # last.after.ret.predictions[i].raw_score

\* The feature row get_risk_predictions builds for lake k of the table in the
\* last scoring call
ScoringRow(k) ==
  LET r == last.args.reading
  IN EngineerFeatures(
       BuildRow(get_species_data(last.args.species_name).value, LakeTable[k],
                r.temperature, r.ph, r.salinity, r.do, r.bod, r.turbidity))

\* C30: in a scoring call every per-lake feature row has, for each of the six
\* parameters, wb_X_min = wb_X_max = the lake's baseline, hence wb_ph_range = 0
\* and wb_temp_range = 0, fish_ph_pref is the lake's baseline pH and
\* ph_difference is |lake baseline pH - input_ph|; the species-trait fields of
\* the row are the values of the species record, the same in all lake rows of
\* the call.
C30_ScoringRowsUseLakeBaseline ==
  (IsScoring /\ SpeciesKnown) =>
    LET species_dict == get_species_data(last.args.species_name).value
    IN \A k \in 1..Len(LakeTable) :
         LET row == ScoringRow(k)
             lake == LakeTable[k]
         IN /\ row.wb_ph_min = lake.pH /\ row.wb_ph_max = lake.pH
            /\ row.wb_salinity_min = lake.salinity /\ row.wb_salinity_max = lake.salinity
            /\ row.wb_do_min = lake.do /\ row.wb_do_max = lake.do
            /\ row.wb_bod_min = lake.bod /\ row.wb_bod_max = lake.bod
            /\ row.wb_turbidity_min = lake.turbidity
            /\ row.wb_turbidity_max = lake.turbidity
            /\ row.wb_temp_min = lake.temperature /\ row.wb_temp_max = lake.temperature
            /\ row.wb_ph_range = 0
            /\ row.wb_temp_range = 0
            /\ row.fish_ph_pref = lake.pH
            /\ row.ph_difference = Abs(lake.pH - last.args.reading.ph)
            /\ row.species = species_dict.species
            /\ row.temp_pref_min = species_dict.temp_pref_min
            /\ row.temp_pref_max = species_dict.temp_pref_max
            /\ row.trophic_level = species_dict.trophic_level
            /\ \A f \in {"species", "temp_pref_min", "temp_pref_max", "trophic_level"} :
                 row[f] = ScoringRow(1)[f]

\* A scoring call has succeeded on a reading whose pH is the baseline of no
\* lake, for lakes of different baseline pH
C30_Witness ==
  /\ Succeeded
  /\ SpeciesKnown
  /\ \A k \in 1..Len(LakeTable) : ScoringRow(k).ph_difference > 0
  /\ \E j, k \in 1..Len(LakeTable) : ScoringRow(j).fish_ph_pref # ScoringRow(k).fish_ph_pref

====
